---- MODULE Spec2Model ----
(***************************************************************************)
(* Model of the useConversation hook                                       *)
(* (src/frontend/src/hooks/useConversation.ts): the session orchestrator   *)
(* (startSession / stopSession / completeSession), the websocket protocol  *)
(* handlers (onopen / onmessage / onerror / onclose), the microphone       *)
(* capture pipeline and the teardown helpers.                              *)
(*                                                                         *)
(* One action is one turn of the browser's event loop: a handler together  *)
(* with the promise continuations (microtasks) it releases.                *)
(***************************************************************************)
EXTENDS Integers, Sequences, FiniteSets, TLC

(***************************************************************************)
(* Bounds of the model.                                                    *)
(***************************************************************************)
MaxSessions == 2
MaxSent == 2
MaxMessages == 2
\* transcript entries kept when several sessions are started
MaxRestartMessages == 1
MaxApiCalls == 2

Sessions == 1..MaxSessions

\* inbound audio messages, concurrent processAudioQueue() calls, playback
\* AudioContexts created, and the range and step of the playback clocks (ticks)
MaxAudio == 3
MaxChains == 2
MaxPlaybackContexts == 2
MaxClock == 40
TickStep == 20

Chains == 1..MaxChains
PlaybackContexts == 1..MaxPlaybackContexts

\* AGENT_VOICE_PLAYBACK_RATE, in percent
PlaybackRatePercent == 65
\* the first PCM sample rate tried by decodeAndPlay
PcmSampleRate == 24000
\* ticks of the clock per sample period: 1 / AGENT_VOICE_PLAYBACK_RATE = 20 / 13
TicksPerPeriod == 13

(***************************************************************************)
(* The hook's React state (useState), its refs (useRef), and per session   *)
(* the objects the session created: its socket, its microphone stream, its *)
(* capture AudioContext and its ScriptProcessor node.  A ref holds the id  *)
(* of the session whose object it points to, 0 for null.                   *)
(***************************************************************************)
VARIABLES
  sessionData,                 \* useState: id of the created session, 0 = null
  connectionStatus,            \* useState
  messages,                    \* useState: the transcript log
  error,                       \* useState: "null" or the message text
  analysis,                    \* useState: 0 = null, else the completed session
  isLoading,                   \* useState
  websocketRef,                \* useRef
  mediaStreamRef,              \* useRef
  audioContextRef,             \* useRef
  processorNodeRef,            \* useRef
  gainNodeRef,                 \* useRef
  conversationInitializedRef,  \* useRef
  playbackAudioContextRef,     \* useRef: 0 = null, else the playback AudioContext
  audioQueueRef,               \* useRef: queued inbound audio payloads
  isPlayingAudioRef,           \* useRef
  nextAudioStartTimeRef,       \* useRef
  currentAudioSourceRef,       \* useRef: 0 = null, else the source node of that payload
  nextId,                      \* number of startSession() calls made so far + 1
  pc,                          \* per startSession() call: where it is suspended
  rs,                          \* per socket: readyState
  settled,                     \* per socket: the `settled` flag of connectWebsocket
  closePending,                \* per socket: error event fired, close event due
  sent,                        \* per socket: frames transmitted, in order
  rcvdMeta,                    \* per socket: initiation metadata was received
  closeCalls,                  \* per socket: number of close(1000) calls
  promiseCalls,                \* per connectWebsocket promise: resolve / reject calls made
  sessionResult,               \* per connectWebsocket call: the maps of its sessionResult
  resampleIn,                  \* downsampleBuffer: the call's arguments
  resampleOut,                 \* downsampleBuffer: the buffer returned
  dispatchIn,                  \* onmessage text frame: the parsed payload handled
  dispatchOut,                 \* onmessage text frame: entries appended, audio enqueued
  captured,                    \* number of onaudioprocess events counted (SpecCapture)
  mic,                         \* per stream: "none" | "live" | "stopped"
  trackStops,                  \* per stream: number of track.stop() calls
  ctx,                         \* per capture AudioContext: "none" | "running" | "closed"
  proc,                        \* per ScriptProcessor: "none" | "connected" | "disconnected"
  playbackCtx,                 \* per playback AudioContext: "none" | "open" | "closed"
  chains,                      \* per processAudioQueue() call: where it is suspended
  audioSeq,                    \* number of inbound audio messages so far
  blobs,                       \* Blob payloads whose arrayBuffer() is pending
  scheduled,                   \* source.start() calls made, in order, each on its context
  currentTime,                 \* per playback AudioContext: context.currentTime, in ticks
  apiCalls,                    \* completeTrainingSession calls made, in order
  completePc,                  \* the completeSession() calls awaiting their response (indices of apiCalls)
  hasMediaDevices,             \* the page: navigator.mediaDevices.getUserMedia exists
  locationProtocol,            \* the page: window.location.protocol
  stopCalled,                  \* stopSession() was called since the last startSession()
  completeResult,              \* what the completeSession() call of this step did, else "none"
  droppedFrame                 \* the onmessage call of this step dropped its text frame

hookState == <<sessionData, connectionStatus, messages, error, analysis, isLoading>>
refs == <<websocketRef, mediaStreamRef, audioContextRef, processorNodeRef,
          gainNodeRef, conversationInitializedRef>>
playbackRefs == <<playbackAudioContextRef, audioQueueRef, isPlayingAudioRef,
                  nextAudioStartTimeRef, currentAudioSourceRef>>
socketState == <<rs, settled, closePending, sent, rcvdMeta, closeCalls, promiseCalls>>
captureState == <<mic, trackStops, ctx, proc>>
completeState == <<apiCalls, completePc>>
playbackState == <<playbackCtx, chains, audioSeq, blobs, scheduled, currentTime>>
resampleState == <<resampleIn, resampleOut>>
dispatchState == <<dispatchIn, dispatchOut>>
vars == <<hookState, refs, playbackRefs, nextId, pc, socketState, captureState,
          completeState, playbackState, hasMediaDevices, locationProtocol, stopCalled, completeResult,
          droppedFrame, sessionResult, resampleState, dispatchState, captured>>

(***************************************************************************)
(* JSON values of an inbound payload.  A field is undefined, a string or a *)
(* number; `??` skips undefined (and null), `if (x)` tests truthiness.     *)
(***************************************************************************)
Undef == [k |-> "undef", s |-> "", n |-> 0]
Str(x) == [k |-> "str", s |-> x, n |-> 0]
Num(x) == [k |-> "int", s |-> "", n |-> x]

Truthy(v) == \/ v.k = "str" /\ v.s # ""
             \/ v.k = "int" /\ v.n # 0

\* `??` that always takes its right operand
CoalesceSecond(a, b) == b

Coalesce(a, b) == IF a.k = "undef" THEN b ELSE a

\* an object with the one field f
Field(f, v) == [x \in {f} |-> v]

\* payload.<path>; a payload is a function from the field paths it carries
Get(p, f) == IF f \in DOMAIN p THEN p[f] ELSE Undef

(***************************************************************************)
(* onmessage: the text extracted from an agent_response / user transcript  *)
(* payload, and the pong built for a ping.                                 *)
(***************************************************************************)
AgentText(p) ==
  Coalesce(Get(p, "agent_response_event.agent_response"),
  Coalesce(Get(p, "agent_response"),
  Coalesce(Get(p, "text"),
  Coalesce(Get(p, "response"), Str("")))))

UserText(p) ==
  Coalesce(Get(p, "user_transcription_event.user_transcript"),
  Coalesce(Get(p, "user_transcript"),
  Coalesce(Get(p, "transcript"),
  Coalesce(Get(p, "text"), Str("")))))

AudioInResponse(p) ==
  Coalesce(Get(p, "agent_response_event.audio"),
  Coalesce(Get(p, "agent_response_event.audio_chunk"),
  Coalesce(Get(p, "audio"), Get(p, "audio_chunk"))))

Pong(eventId) == [type |-> "pong", event_id |-> eventId]

InitiationPayload == [type |-> "conversation_initiation_client_data",
                      event_id |-> Undef]

UserAudioChunk == [type |-> "user_audio_chunk", event_id |-> Undef]

\* a map of the session result: absent (undefined / null) or an object with keys
AbsentMap == [present |-> FALSE, keys |-> {}]
EmptyMap == [present |-> TRUE, keys |-> {}]
MapValues == {AbsentMap, EmptyMap, [present |-> TRUE, keys |-> {"agent"}]}

\* the session results createTrainingSession may resolve with
SessionResults == [override : MapValues, dynamic : MapValues]
PlainResult == [override |-> AbsentMap, dynamic |-> AbsentMap]

\* the test on a map without the Object.keys part
HasEntriesIfPresent(m) == m.present

\* `m && Object.keys(m).length > 0`
HasEntries(m) == m.present /\ Cardinality(m.keys) > 0

\* onopen: the initiation payload with the optional maps added
InitiationMessage(result) ==
  LET override == IF HasEntries(result.override)
                  THEN Field("conversation_config_override", result.override)
                  ELSE [x \in {} |-> Undef]
      dynamic == IF HasEntries(result.dynamic)
                 THEN Field("dynamic_variables", result.dynamic)
                 ELSE [x \in {} |-> Undef]
  IN InitiationPayload @@ override @@ dynamic

\* MessageBranch that treats every unrecognized payload as an error message
MessageBranchDefaultError(p) ==
  LET type == Get(p, "type") IN
  IF type = Str("conversation_initiation_metadata") THEN "metadata"
  ELSE IF type = Str("ping") /\ Truthy(Get(p, "ping_event.event_id")) THEN "ping"
  ELSE IF type \in {Str("agent_response"), Str("response")} THEN "agent_response"
  ELSE IF type = Str("audio") THEN "audio"
  ELSE IF type \in {Str("agent_audio_chunk"), Str("audio_chunk")} THEN "audio_chunk"
  ELSE IF Truthy(Get(p, "audio_chunk")) \/ Truthy(Get(p, "agent_audio")) THEN "other_audio"
  ELSE IF type \in {Str("user_transcription"), Str("transcript"), Str("user_transcript")}
       THEN "user_transcript"
  ELSE IF type = Str("error") THEN "error"
  ELSE "error"

\* the branch of onmessage's if / else-if chain a parsed payload takes
MessageBranch(p) ==
  LET type == Get(p, "type") IN
  IF type = Str("conversation_initiation_metadata") THEN "metadata"
  ELSE IF type = Str("ping") /\ Truthy(Get(p, "ping_event.event_id")) THEN "ping"
  ELSE IF type \in {Str("agent_response"), Str("response")} THEN "agent_response"
  ELSE IF type = Str("audio") THEN "audio"
  ELSE IF type \in {Str("agent_audio_chunk"), Str("audio_chunk")} THEN "audio_chunk"
  ELSE IF Truthy(Get(p, "audio_chunk")) \/ Truthy(Get(p, "agent_audio")) THEN "other_audio"
  ELSE IF type \in {Str("user_transcription"), Str("transcript"), Str("user_transcript")}
       THEN "user_transcript"
  ELSE IF type = Str("error") THEN "error"
  ELSE "unhandled"

\* appendMessage that puts the new entry first
appendMessageFirst(msgs, message) == <<message>> \o msgs

\* appendMessage: setMessages((prev) => [...prev, message])
appendMessage(msgs, message) == Append(msgs, message)

\* conversationLog: `${speaker.toUpperCase()}: ${text}` per message, joined
UpperCase(speaker) ==
  CASE speaker = "agent" -> "AGENT"
    [] speaker = "user" -> "USER"
    [] OTHER -> "SYSTEM"

ConversationLog(msgs) ==
  [i \in 1..Len(msgs) |-> <<UpperCase(msgs[i].speaker), msgs[i].text>>]

(***************************************************************************)
(* The user-facing error texts (abbreviated; one name per distinct text).  *)
(***************************************************************************)
ErrSocketEvent == "WebSocket connection error (onerror)"
ErrClose1002 == "WebSocket protocol error (1002)"
ErrClose1006 == "WebSocket connection closed abnormally"
ErrCloseOther == "WebSocket closed unexpectedly"
ErrRejectedOnError == "WebSocket error"
ErrRejectedOnClose == "WebSocket closed before initialization"
ErrCtor == "SyntaxError: invalid WebSocket URL"
ErrRequest == "Request failed"
ErrMicHttps == "Microphone access requires HTTPS"
ErrMicUnsupported == "Microphone access not supported or blocked"
ErrMicGeneric == "Could not access the microphone"
ErrMicDenied == "Microphone access denied"
ErrMicNotFound == "Microphone not found"
ErrMicBusy == "Microphone busy"
ErrResume == "InvalidStateError: AudioContext closed"
ErrDefaultInbound == "Error from ElevenLabs conversation"

\* the body of an error response of the backend: whether response.json()
\* parses it, the `detail` field of the parsed value, and its text: what
\* JSON.stringify(data) gives for a JSON body, response.text() for another
EmptyBody == [json |-> FALSE, detail |-> Undef, text |-> ""]
TextBody(text) == [json |-> FALSE, detail |-> Undef, text |-> text]
JsonBody(detail, stringified) == [json |-> TRUE, detail |-> detail, text |-> stringified]
DetailBody(detail) == JsonBody(Str(detail), "{\"detail\":\"" \o detail \o "\"}")

\* request(): the message of the Error thrown for a response that is not ok
RequestErrorMessage(body) ==
  LET message == IF body.json /\ body.detail.k = "str" THEN body.detail.s ELSE body.text
  IN IF message = "" THEN ErrRequest ELSE message

\* startStreamingAudio: the message chosen in the catch of getUserMedia
MicErrorMessage(name, protocol) ==
  IF name \in {"NotAllowedError", "PermissionDeniedError"} THEN ErrMicDenied
  ELSE IF name \in {"NotFoundError", "DevicesNotFoundError"} THEN ErrMicNotFound
  ELSE IF name \in {"NotReadableError", "TrackStartError"} THEN ErrMicBusy
  ELSE IF protocol = "http:" THEN ErrMicHttps
  ELSE ErrMicGeneric

\* startStreamingAudio: the message when navigator.mediaDevices is missing
MediaDevicesErrorMessage(protocol) ==
  IF protocol = "http:" THEN ErrMicHttps ELSE ErrMicUnsupported

\* the `message` of the DOMException getUserMedia rejected with
RawMessage(name) ==
  CASE name = "NotAllowedError" -> "DOMException: Permission denied"
    [] name = "NotFoundError" -> "DOMException: Requested device not found"
    [] name = "NotReadableError" -> "DOMException: Could not start audio source"
    [] OTHER -> "DOMException: getUserMedia failed"

\* onclose: the error text set for a close event, "keep" when none is set
CloseErrorMessage(code, wasClean) ==
  IF code = 1002 THEN ErrClose1002
  ELSE IF code = 1006 THEN ErrClose1006
  ELSE IF ~wasClean /\ code # 1000 THEN ErrCloseOther
  ELSE "keep"

(***************************************************************************)
(* Inputs of the model: inbound payloads, close events, getUserMedia       *)
(* failures, the page's protocol.                                          *)
(***************************************************************************)
MetadataMsg == Field("type", Str("conversation_initiation_metadata"))
PingMsg(e) == Field("type", Str("ping")) @@ Field("ping_event.event_id", e)
AgentResponseMsg(t) ==
  Field("type", Str("agent_response")) @@ Field("agent_response_event.agent_response", Str(t))
UserTranscriptMsg(t) ==
  Field("type", Str("user_transcript"))
    @@ Field("user_transcription_event.user_transcript", Str(t))
\* an agent response that carries its text in the top-level `text` alias
AgentAliasMsg(t) == Field("type", Str("response")) @@ Field("text", Str(t))
\* a user transcript that carries its text in the top-level `transcript` alias
UserAliasMsg(t) == Field("type", Str("transcript")) @@ Field("transcript", Str(t))
ErrorMsg == Field("type", Str("error")) @@ Field("message", Str("agent failure"))
UnknownMsg == Field("type", Str("interruption"))

EventIds == {Num(0), Num(7), Str("e1")}

\* an agent response whose nested text field is empty and whose `text` alias is not
AgentEmptyNestedMsg(t) == AgentResponseMsg("") @@ Field("text", Str(t))
\* a user transcript that also carries an audio chunk
UserTranscriptWithAudioMsg(t) == UserTranscriptMsg(t) @@ Field("audio_chunk", Str("QUJD"))

\* every kind of text payload (used with a single session)
InboundPayloads ==
  {MetadataMsg, ErrorMsg, UnknownMsg, AgentResponseMsg("hello"), UserTranscriptMsg("hi"),
   AgentResponseMsg(""), AgentAliasMsg("hello"), UserAliasMsg("hi"),
   Field("type", Str("agent_response")), Field("type", Str("user_transcript")),
   AgentEmptyNestedMsg("hey"), UserTranscriptWithAudioMsg("hi")}
    \cup {PingMsg(e) : e \in EventIds}

\* the payloads that matter across a restart (used with several sessions)
RestartPayloads == {MetadataMsg, AgentResponseMsg("hello"), PingMsg(Num(7))}

CloseEvents ==
  {[code |-> 1000, wasClean |-> TRUE], [code |-> 1002, wasClean |-> FALSE],
   [code |-> 1006, wasClean |-> FALSE], [code |-> 1011, wasClean |-> FALSE],
   [code |-> 1011, wasClean |-> TRUE]}

\* error responses of the backend: no body, a JSON body with a detail
ErrorBodies == {EmptyBody, DetailBody("Session not found")}

\* the same, seen by the handshake alone: plain text, JSON without a detail
HandshakeErrorBodies ==
  {EmptyBody, TextBody("Internal Server Error"), JsonBody(Num(5), "{\"detail\":5}")}

MicFailures == {"NotAllowedError", "NotFoundError", "NotReadableError", "AbortError"}
Protocols == {"https:", "http:"}

\* an inbound audio payload: its arrival number and its length in bytes
NoBuffer == [seq |-> 0, len |-> 0]

\* a processAudioQueue() call that is not running
FreeChain == [st |-> "free", ctx |-> 0, buf |-> NoBuffer, fin |-> 0, stopped |-> FALSE]

(***************************************************************************)
(* Initial state: the hook just mounted, in a page that does or does not   *)
(* expose navigator.mediaDevices, served over https or http.               *)
(***************************************************************************)
InitSession ==
  /\ captured = 0
  /\ sessionData = 0
  /\ connectionStatus = "idle"
  /\ messages = <<>>
  /\ error = "null"
  /\ analysis = 0
  /\ isLoading = FALSE
  /\ websocketRef = 0
  /\ mediaStreamRef = 0
  /\ audioContextRef = 0
  /\ processorNodeRef = 0
  /\ gainNodeRef = 0
  /\ conversationInitializedRef = FALSE
  /\ playbackAudioContextRef = 0
  /\ audioQueueRef = <<>>
  /\ isPlayingAudioRef = FALSE
  /\ nextAudioStartTimeRef = 0
  /\ currentAudioSourceRef = 0
  /\ nextId = 1
  /\ pc = [s \in Sessions |-> "unused"]
  /\ rs = [s \in Sessions |-> "NONE"]
  /\ settled = [s \in Sessions |-> FALSE]
  /\ closePending = [s \in Sessions |-> FALSE]
  /\ sent = [s \in Sessions |-> <<>>]
  /\ rcvdMeta = [s \in Sessions |-> FALSE]
  /\ closeCalls = [s \in Sessions |-> 0]
  /\ promiseCalls = [s \in Sessions |-> <<>>]
  /\ sessionResult = [s \in Sessions |-> PlainResult]
  /\ mic = [s \in Sessions |-> "none"]
  /\ trackStops = [s \in Sessions |-> 0]
  /\ ctx = [s \in Sessions |-> "none"]
  /\ proc = [s \in Sessions |-> "none"]
  /\ playbackCtx = [c \in PlaybackContexts |-> "none"]
  /\ chains = [c \in Chains |-> FreeChain]
  /\ audioSeq = 0
  /\ blobs = {}
  /\ scheduled = <<>>
  /\ currentTime = [x \in PlaybackContexts |-> 0]
  /\ apiCalls = <<>>
  /\ completePc = {}
  /\ hasMediaDevices \in BOOLEAN
  /\ locationProtocol \in Protocols
  /\ stopCalled = FALSE
  /\ completeResult = "none"
  /\ droppedFrame = FALSE

\* downsampleBuffer has not been called
NoResample == [n |-> 0, inputSampleRate |-> 0, outputSampleRate |-> 0]
NotReturned == [done |-> FALSE, buffer |-> <<>>]

\* no text frame has been taken through the handler's dispatch
NoDispatch == [called |-> FALSE, payload |-> <<>>]
NotDispatched == [done |-> FALSE, entries |-> <<>>, audio |-> <<>>]

Init ==
  /\ InitSession
  /\ resampleIn = NoResample /\ resampleOut = NotReturned
  /\ dispatchIn = NoDispatch /\ dispatchOut = NotDispatched

(***************************************************************************)
(* Teardown helpers.                                                       *)
(***************************************************************************)
\* stopRecording that stops the tracks but keeps mediaStreamRef
stopRecordingKeepingStreamRef ==
  /\ proc' = IF processorNodeRef # 0
             THEN [proc EXCEPT ![processorNodeRef] = "disconnected"] ELSE proc
  /\ processorNodeRef' = 0
  /\ gainNodeRef' = 0
  /\ ctx' = IF audioContextRef # 0
            THEN [ctx EXCEPT ![audioContextRef] = "closed"] ELSE ctx
  /\ audioContextRef' = 0
  /\ playbackCtx' = IF playbackAudioContextRef # 0
                    THEN [playbackCtx EXCEPT ![playbackAudioContextRef] = "closed"]
                    ELSE playbackCtx
  /\ playbackAudioContextRef' = 0
  /\ mic' = IF mediaStreamRef # 0
            THEN [mic EXCEPT ![mediaStreamRef] = "stopped"] ELSE mic
  /\ trackStops' = IF mediaStreamRef # 0
                   THEN [trackStops EXCEPT ![mediaStreamRef] = @ + 1] ELSE trackStops
  /\ mediaStreamRef' = mediaStreamRef
  /\ audioQueueRef' = <<>>
  /\ isPlayingAudioRef' = FALSE
  /\ chains' = [c \in Chains |->
                  IF chains[c].st = "playing" /\ chains[c].buf.seq = currentAudioSourceRef
                  THEN [chains[c] EXCEPT !.stopped = TRUE] ELSE chains[c]]
  /\ currentAudioSourceRef' = 0
  /\ nextAudioStartTimeRef' = 0

\* stopRecording()
stopRecording ==
  /\ proc' = IF processorNodeRef # 0
             THEN [proc EXCEPT ![processorNodeRef] = "disconnected"] ELSE proc
  /\ processorNodeRef' = 0
  /\ gainNodeRef' = 0
  /\ ctx' = IF audioContextRef # 0
            THEN [ctx EXCEPT ![audioContextRef] = "closed"] ELSE ctx
  /\ audioContextRef' = 0
  /\ playbackCtx' = IF playbackAudioContextRef # 0
                    THEN [playbackCtx EXCEPT ![playbackAudioContextRef] = "closed"]
                    ELSE playbackCtx
  /\ playbackAudioContextRef' = 0
  /\ mic' = IF mediaStreamRef # 0
            THEN [mic EXCEPT ![mediaStreamRef] = "stopped"] ELSE mic
  /\ trackStops' = IF mediaStreamRef # 0
                   THEN [trackStops EXCEPT ![mediaStreamRef] = @ + 1] ELSE trackStops
  /\ mediaStreamRef' = 0
  /\ audioQueueRef' = <<>>
  /\ isPlayingAudioRef' = FALSE
  /\ chains' = [c \in Chains |->
                  IF chains[c].st = "playing" /\ chains[c].buf.seq = currentAudioSourceRef
                  THEN [chains[c] EXCEPT !.stopped = TRUE] ELSE chains[c]]
  /\ currentAudioSourceRef' = 0
  /\ nextAudioStartTimeRef' = 0

\* the test on the current socket without the readyState part
CurrentSocketSet == websocketRef # 0

\* websocketRef.current && websocketRef.current.readyState === WebSocket.OPEN
CurrentSocketOpen == websocketRef # 0 /\ rs[websocketRef] = "OPEN"

\* closeWebsocket()
closeWebsocket ==
  /\ IF CurrentSocketOpen
     THEN /\ rs' = [rs EXCEPT ![websocketRef] = "CLOSING"]
          /\ closeCalls' = [closeCalls EXCEPT ![websocketRef] = @ + 1]
     ELSE UNCHANGED <<rs, closeCalls>>
  /\ websocketRef' = 0

(***************************************************************************)
(* startSession(form)                                                      *)
(***************************************************************************)
\* onerror / onclose calling reject() whatever the `settled` flag says
RejectsHandshakeAlways(s) == TRUE

\* `if (!settled)` of onerror / onclose: the handler calls reject()
RejectsHandshake(s) == ~settled[s]

\* the promise of connectWebsocket is pending and startSession awaits it
AwaitsHandshake(s) == pc[s] = "ws" /\ promiseCalls[s] = <<>>

\* the catch / finally of startSession, run for call s with the thrown message
failStart(s, msg) ==
  /\ error' = msg
  /\ connectionStatus' = "error"
  /\ isLoading' = FALSE
  /\ pc' = [pc EXCEPT ![s] = "failed"]

\* the form's submit button (start / restart) is disabled while isLoading
StartOffered == ~isLoading

\* startSession up to `await createTrainingSession(form)`
StartSession ==
  /\ nextId <= MaxSessions
  /\ StartOffered
  /\ isLoading' = TRUE
  /\ messages' = <<>>
  /\ analysis' = 0
  /\ error' = "null"
  /\ conversationInitializedRef' = FALSE
  /\ connectionStatus' = "connecting"
  /\ pc' = [pc EXCEPT ![nextId] = "create"]
  /\ nextId' = nextId + 1
  /\ UNCHANGED <<sessionData, websocketRef, mediaStreamRef, audioContextRef,
                 processorNodeRef, gainNodeRef, playbackRefs, socketState,
                 captureState, completeState>>
  /\ completeResult' = "none"
  /\ droppedFrame' = FALSE
  /\ UNCHANGED resampleState
  /\ UNCHANGED dispatchState
  /\ UNCHANGED captured
  /\ UNCHANGED sessionResult
  /\ stopCalled' = FALSE
  /\ UNCHANGED <<playbackState, hasMediaDevices, locationProtocol>>

\* createTrainingSession resolved: setSessionData, then connectWebsocket up to
\* the pending handshake promise (or the WebSocket constructor throwing)
CreateSessionResolved(s, urlOk, result) ==
  /\ pc[s] = "create"
  /\ sessionData' = s
  /\ sessionResult' = [sessionResult EXCEPT ![s] = result]
  /\ IF urlOk
     THEN /\ rs' = [rs EXCEPT ![s] = "CONNECTING"]
          /\ websocketRef' = s
          /\ pc' = [pc EXCEPT ![s] = "ws"]
          /\ UNCHANGED <<error, connectionStatus, isLoading, settled, promiseCalls>>
     ELSE /\ settled' = [settled EXCEPT ![s] = TRUE]
          /\ promiseCalls' = [promiseCalls EXCEPT ![s] = Append(@, "reject")]
          /\ failStart(s, ErrCtor)
          /\ UNCHANGED <<rs, websocketRef>>
  /\ UNCHANGED <<messages, analysis, mediaStreamRef, audioContextRef, processorNodeRef,
                 gainNodeRef, conversationInitializedRef, playbackRefs, nextId,
                 closePending, sent, rcvdMeta, closeCalls, captureState, completeState>>
  /\ completeResult' = "none"
  /\ droppedFrame' = FALSE
  /\ UNCHANGED resampleState
  /\ UNCHANGED dispatchState
  /\ UNCHANGED captured
  /\ UNCHANGED <<playbackState, hasMediaDevices, locationProtocol, stopCalled>>

\* createTrainingSession rejected
CreateSessionRejected(s, body) ==
  /\ pc[s] = "create"
  /\ failStart(s, RequestErrorMessage(body))
  /\ UNCHANGED <<sessionData, messages, analysis, refs, playbackRefs, nextId,
                 socketState, captureState, completeState>>
  /\ completeResult' = "none"
  /\ droppedFrame' = FALSE
  /\ UNCHANGED resampleState
  /\ UNCHANGED dispatchState
  /\ UNCHANGED captured
  /\ UNCHANGED sessionResult
  /\ UNCHANGED <<playbackState, hasMediaDevices, locationProtocol, stopCalled>>

(***************************************************************************)
(* connectWebsocket: the socket's handlers.  A handler that settles the    *)
(* handshake promise is followed, in the same turn, by startSession's      *)
(* continuation (startStreamingAudio up to getUserMedia, or the catch).    *)
(***************************************************************************)
\* onopen whose socket.send throws: the catch logs it and nothing is transmitted
sendInitiationThrowing(s) == sent[s]

\* onopen: socket.send(JSON.stringify(initiationPayload)) on the socket that opened
sendInitiation(s) == Append(sent[s], InitiationMessage(sessionResult[s]))

\* socket.onopen, then startStreamingAudio up to `await getUserMedia`
OnOpen(s) ==
  /\ rs[s] = "CONNECTING"
  /\ rs' = [rs EXCEPT ![s] = "OPEN"]
  /\ settled' = [settled EXCEPT ![s] = TRUE]
  /\ sent' = [sent EXCEPT ![s] = sendInitiation(s)]
  /\ promiseCalls' = [promiseCalls EXCEPT ![s] = Append(@, "resolve")]
  /\ IF ~AwaitsHandshake(s)
     THEN /\ connectionStatus' = "connected"
          /\ UNCHANGED <<error, isLoading, pc>>
     ELSE IF websocketRef = 0
     THEN /\ connectionStatus' = "connected"
          /\ isLoading' = FALSE
          /\ pc' = [pc EXCEPT ![s] = "done"]
          /\ UNCHANGED error
     ELSE IF ~hasMediaDevices
     THEN failStart(s, MediaDevicesErrorMessage(locationProtocol))
     ELSE /\ connectionStatus' = "connected"
          /\ pc' = [pc EXCEPT ![s] = "mic"]
          /\ UNCHANGED <<error, isLoading>>
  /\ UNCHANGED <<sessionData, messages, analysis, refs, playbackRefs, nextId,
                 closePending, rcvdMeta, closeCalls, captureState, completeState>>
  /\ completeResult' = "none"
  /\ droppedFrame' = FALSE
  /\ UNCHANGED resampleState
  /\ UNCHANGED dispatchState
  /\ UNCHANGED captured
  /\ UNCHANGED sessionResult
  /\ UNCHANGED <<playbackState, hasMediaDevices, locationProtocol, stopCalled>>

\* socket.onerror (the browser has already set readyState to CLOSED and will
\* fire the close event next)
OnError(s) ==
  /\ rs[s] \in {"CONNECTING", "OPEN", "CLOSING"}
  /\ rs' = [rs EXCEPT ![s] = "CLOSED"]
  /\ closePending' = [closePending EXCEPT ![s] = TRUE]
  /\ settled' = [settled EXCEPT ![s] = TRUE]
  /\ promiseCalls' = IF RejectsHandshake(s)
                     THEN [promiseCalls EXCEPT ![s] = Append(@, "reject")]
                     ELSE promiseCalls
  /\ IF RejectsHandshake(s) /\ AwaitsHandshake(s)
     THEN failStart(s, ErrRejectedOnError)
     ELSE /\ error' = ErrSocketEvent
          /\ connectionStatus' = "error"
          /\ UNCHANGED <<isLoading, pc>>
  /\ UNCHANGED <<sessionData, messages, analysis, refs, playbackRefs, nextId,
                 sent, rcvdMeta, closeCalls, captureState, completeState>>
  /\ completeResult' = "none"
  /\ droppedFrame' = FALSE
  /\ UNCHANGED resampleState
  /\ UNCHANGED dispatchState
  /\ UNCHANGED captured
  /\ UNCHANGED sessionResult
  /\ UNCHANGED <<playbackState, hasMediaDevices, locationProtocol, stopCalled>>

\* socket.onclose, for whatever code the close event carries; a socket that is
\* still connecting can be closed too, which rejects the pending promise
OnClose(s, ev) ==
  /\ \/ rs[s] \in {"OPEN", "CLOSING"}
     \/ rs[s] = "CONNECTING"
     \/ closePending[s] /\ ev.code = 1006
  /\ rs' = [rs EXCEPT ![s] = "CLOSED"]
  /\ closePending' = [closePending EXCEPT ![s] = FALSE]
  /\ settled' = [settled EXCEPT ![s] = TRUE]
  /\ conversationInitializedRef' = FALSE
  /\ promiseCalls' = IF RejectsHandshake(s)
                     THEN [promiseCalls EXCEPT ![s] = Append(@, "reject")]
                     ELSE promiseCalls
  /\ IF RejectsHandshake(s) /\ AwaitsHandshake(s)
     THEN failStart(s, ErrRejectedOnClose)
     ELSE /\ error' = IF CloseErrorMessage(ev.code, ev.wasClean) = "keep"
                      THEN error ELSE CloseErrorMessage(ev.code, ev.wasClean)
          /\ connectionStatus' = "stopped"
          /\ UNCHANGED <<isLoading, pc>>
  /\ UNCHANGED <<sessionData, messages, analysis, websocketRef, mediaStreamRef,
                 audioContextRef, processorNodeRef, gainNodeRef, playbackRefs, nextId,
                 sent, rcvdMeta, closeCalls, captureState, completeState>>
  /\ completeResult' = "none"
  /\ droppedFrame' = FALSE
  /\ UNCHANGED resampleState
  /\ UNCHANGED dispatchState
  /\ UNCHANGED captured
  /\ UNCHANGED sessionResult
  /\ UNCHANGED <<playbackState, hasMediaDevices, locationProtocol, stopCalled>>

\* socket.onmessage for a text frame that JSON.parse rejects (or whose parsed
\* value is null): the catch logs it
OnInvalidText(s) ==
  /\ rs[s] \in {"OPEN", "CLOSING"}
  /\ droppedFrame' = TRUE
  /\ UNCHANGED resampleState
  /\ UNCHANGED dispatchState
  /\ UNCHANGED captured
  /\ UNCHANGED sessionResult
  /\ completeResult' = "none"
  /\ UNCHANGED <<hookState, refs, playbackRefs, nextId, pc, socketState, captureState,
                 completeState, playbackState, hasMediaDevices, locationProtocol,
                 stopCalled>>

(***************************************************************************)
(* startStreamingAudio after getUserMedia, and the capture callback.       *)
(***************************************************************************)
\* getUserMedia resolved: the stream and the capture AudioContext are stored,
\* up to `await audioContext.resume()`
MicGranted(s) ==
  /\ pc[s] = "mic"
  /\ mediaStreamRef' = s
  /\ mic' = [mic EXCEPT ![s] = "live"]
  /\ audioContextRef' = s
  /\ ctx' = [ctx EXCEPT ![s] = "running"]
  /\ pc' = [pc EXCEPT ![s] = "resume"]
  /\ UNCHANGED <<hookState, websocketRef, processorNodeRef, gainNodeRef,
                 conversationInitializedRef, playbackRefs, nextId, socketState,
                 trackStops, proc, completeState>>
  /\ completeResult' = "none"
  /\ droppedFrame' = FALSE
  /\ UNCHANGED resampleState
  /\ UNCHANGED dispatchState
  /\ UNCHANGED captured
  /\ UNCHANGED sessionResult
  /\ UNCHANGED <<playbackState, hasMediaDevices, locationProtocol, stopCalled>>

\* getUserMedia rejected with a DOMException of the given name: the classified
\* message is set, the exception rethrown, and startSession's catch replaces the
\* message by the exception's own
MicDenied(s, name) ==
  /\ pc[s] = "mic"
  /\ MicErrorMessage(name, locationProtocol) # "null"
  /\ failStart(s, RawMessage(name))
  /\ UNCHANGED <<sessionData, messages, analysis, refs, playbackRefs, nextId,
                 socketState, captureState, completeState>>
  /\ completeResult' = "none"
  /\ droppedFrame' = FALSE
  /\ UNCHANGED resampleState
  /\ UNCHANGED dispatchState
  /\ UNCHANGED captured
  /\ UNCHANGED sessionResult
  /\ UNCHANGED <<playbackState, hasMediaDevices, locationProtocol, stopCalled>>

\* audioContext.resume() resolved: processor and gain nodes are created and
\* connected, onaudioprocess installed; startSession finishes
ResumeResolved(s) ==
  /\ pc[s] = "resume"
  /\ processorNodeRef' = s
  /\ gainNodeRef' = s
  /\ proc' = [proc EXCEPT ![s] = "connected"]
  /\ isLoading' = FALSE
  /\ pc' = [pc EXCEPT ![s] = "done"]
  /\ UNCHANGED <<sessionData, connectionStatus, messages, error, analysis,
                 websocketRef, mediaStreamRef, audioContextRef,
                 conversationInitializedRef, playbackRefs, nextId, socketState,
                 mic, trackStops, ctx, completeState>>
  /\ completeResult' = "none"
  /\ droppedFrame' = FALSE
  /\ UNCHANGED resampleState
  /\ UNCHANGED dispatchState
  /\ UNCHANGED captured
  /\ UNCHANGED sessionResult
  /\ UNCHANGED <<playbackState, hasMediaDevices, locationProtocol, stopCalled>>

\* audioContext.resume() rejected (or node creation threw) because the context
\* was closed by a teardown while the call was suspended
ResumeRejected(s) ==
  /\ pc[s] = "resume"
  /\ ctx[s] = "closed"
  /\ failStart(s, ErrResume)
  /\ UNCHANGED <<sessionData, messages, analysis, refs, playbackRefs, nextId,
                 socketState, captureState, completeState>>
  /\ completeResult' = "none"
  /\ droppedFrame' = FALSE
  /\ UNCHANGED resampleState
  /\ UNCHANGED dispatchState
  /\ UNCHANGED captured
  /\ UNCHANGED sessionResult
  /\ UNCHANGED <<playbackState, hasMediaDevices, locationProtocol, stopCalled>>

\* onaudioprocess that does not wait for the conversation to be initialized
sendAudioChunkUninitialized(chunk, limit) ==
  IF ~CurrentSocketOpen
  THEN UNCHANGED sent
  ELSE /\ Len(sent[websocketRef]) < limit
       /\ sent' = [sent EXCEPT ![websocketRef] = Append(@, chunk)]

\* the body of onaudioprocess: the two early returns, then
\* websocketRef.current.send(...) of the chunk made from the buffer (at most
\* `limit` frames are kept per socket)
sendAudioChunk(chunk, limit) ==
  IF ~CurrentSocketOpen
  THEN UNCHANGED sent
  ELSE IF ~conversationInitializedRef
  THEN UNCHANGED sent
  ELSE /\ Len(sent[websocketRef]) < limit
       /\ sent' = [sent EXCEPT ![websocketRef] = Append(@, chunk)]

\* processor.onaudioprocess of session s's processor: fires while the node is
\* connected in a running context
OnAudioProcess(s) ==
  /\ proc[s] = "connected"
  /\ ctx[s] = "running"
  /\ sendAudioChunk(UserAudioChunk, MaxSent)
  /\ UNCHANGED <<hookState, refs, playbackRefs, nextId, pc, rs, settled, closePending,
                 rcvdMeta, closeCalls, promiseCalls, captureState, completeState>>
  /\ completeResult' = "none"
  /\ droppedFrame' = FALSE
  /\ UNCHANGED resampleState
  /\ UNCHANGED dispatchState
  /\ UNCHANGED captured
  /\ UNCHANGED sessionResult
  /\ UNCHANGED <<playbackState, hasMediaDevices, locationProtocol, stopCalled>>

(***************************************************************************)
(* stopSession(), the unmount cleanup, completeSession()                   *)
(***************************************************************************)
StopSession ==
  /\ stopRecording
  /\ closeWebsocket
  /\ connectionStatus' = "stopped"
  /\ UNCHANGED <<sessionData, messages, error, analysis, isLoading,
                 conversationInitializedRef, nextId, pc, settled, closePending, sent,
                 rcvdMeta, promiseCalls, completeState>>
  /\ completeResult' = "none"
  /\ droppedFrame' = FALSE
  /\ UNCHANGED resampleState
  /\ UNCHANGED dispatchState
  /\ UNCHANGED captured
  /\ UNCHANGED sessionResult
  /\ stopCalled' = TRUE
  /\ UNCHANGED <<audioSeq, blobs, scheduled, currentTime, hasMediaDevices,
                 locationProtocol>>

\* the cleanup of the hook's useEffect
UnmountCleanup ==
  /\ stopRecording
  /\ closeWebsocket
  /\ UNCHANGED <<hookState, conversationInitializedRef, nextId, pc, settled,
                 closePending, sent, rcvdMeta, promiseCalls, completeState>>
  /\ completeResult' = "none"
  /\ droppedFrame' = FALSE
  /\ UNCHANGED resampleState
  /\ UNCHANGED dispatchState
  /\ UNCHANGED captured
  /\ UNCHANGED sessionResult
  /\ UNCHANGED <<audioSeq, blobs, scheduled, currentTime, hasMediaDevices,
                 locationProtocol, stopCalled>>

\* CompleteCheck without the guard on a still-active session
CompleteCheckIgnoringStatus ==
  IF sessionData = 0 THEN "No active session to complete"
  ELSE IF Len(messages) = 0 THEN "Cannot analyze empty conversation"
  ELSE "ok"

\* the precondition checks of completeSession: the error thrown, or "ok"
CompleteCheck ==
  IF sessionData = 0 THEN "No active session to complete"
  ELSE IF connectionStatus = "connected" \/ connectionStatus = "connecting"
  THEN "Cannot analyze conversation while session is still active"
  ELSE IF Len(messages) = 0 THEN "Cannot analyze empty conversation"
  ELSE "ok"

\* completeSession() up to `await completeTrainingSession(...)`, or its throw;
\* nothing in it waits for an earlier call to settle
CompleteSession ==
  /\ IF CompleteCheck # "ok"
     THEN /\ completeResult' = CompleteCheck
          /\ UNCHANGED <<isLoading, apiCalls, completePc>>
     ELSE /\ Len(apiCalls) < MaxApiCalls
          /\ completeResult' = "called"
          /\ isLoading' = TRUE
          /\ apiCalls' = Append(apiCalls, [id |-> sessionData,
                                           log |-> ConversationLog(messages)])
          /\ completePc' = completePc \cup {Len(apiCalls) + 1}
  /\ UNCHANGED <<sessionData, connectionStatus, messages, error, analysis, refs,
                 playbackRefs, nextId, pc, socketState, captureState>>
  /\ droppedFrame' = FALSE
  /\ UNCHANGED resampleState
  /\ UNCHANGED dispatchState
  /\ UNCHANGED captured
  /\ UNCHANGED sessionResult
  /\ UNCHANGED <<playbackState, hasMediaDevices, locationProtocol, stopCalled>>

\* completeTrainingSession of call i resolved
CompleteResolved(i) ==
  /\ i \in completePc
  /\ analysis' = apiCalls[i].id
  /\ isLoading' = FALSE
  /\ completePc' = completePc \ {i}
  /\ UNCHANGED <<sessionData, connectionStatus, messages, error, refs, playbackRefs,
                 nextId, pc, socketState, captureState, apiCalls>>
  /\ completeResult' = "none"
  /\ droppedFrame' = FALSE
  /\ UNCHANGED resampleState
  /\ UNCHANGED dispatchState
  /\ UNCHANGED captured
  /\ UNCHANGED sessionResult
  /\ UNCHANGED <<playbackState, hasMediaDevices, locationProtocol, stopCalled>>

\* completeTrainingSession of call i rejected
CompleteRejected(i, body) ==
  /\ i \in completePc
  /\ error' = RequestErrorMessage(body)
  /\ isLoading' = FALSE
  /\ completePc' = completePc \ {i}
  /\ UNCHANGED <<sessionData, connectionStatus, messages, analysis, refs, playbackRefs,
                 nextId, pc, socketState, captureState, apiCalls>>
  /\ completeResult' = "none"
  /\ droppedFrame' = FALSE
  /\ UNCHANGED resampleState
  /\ UNCHANGED dispatchState
  /\ UNCHANGED captured
  /\ UNCHANGED sessionResult
  /\ UNCHANGED <<playbackState, hasMediaDevices, locationProtocol, stopCalled>>

(***************************************************************************)
(* Inbound audio and its playback: addAudioToQueue, processAudioQueue with *)
(* its playNext / decodeAndPlay closures, and onmessage.  A payload is its *)
(* arrival number and its length in bytes.  A duration is a number of      *)
(* sample periods at PcmSampleRate (1/24000 s); a time (currentTime, a     *)
(* start time) is a number of ticks, TicksPerPeriod to the period, so that *)
(* duration / 0.65 is a whole number of ticks.                             *)
(***************************************************************************)
nonPlayback == <<hookState, refs, nextId, pc, socketState, captureState, completeState,
                 hasMediaDevices, locationProtocol, stopCalled>>

Max(a, b) == IF a >= b THEN a ELSE b

\* audioBuffer.duration / source.playbackRate.value: periods to ticks
AdjustedDuration(d) == (d * TicksPerPeriod * 100) \div PlaybackRatePercent

\* the PCM fallback accepting a payload of any length
IsPcmAnyLength(len) == len > 0

\* numSamples > 0 && Number.isInteger(numSamples), numSamples = byteLength / 2
IsPcm(len) == len > 0 /\ len % 2 = 0

\* duration, in periods, of the buffer the PCM fallback creates:
\* createBuffer(1, numSamples, 24000) holds byteLength / 2 samples, one period each
PcmDuration(len) == len \div 2

\* the slot of the next processAudioQueue() call that suspends
FreeSlot == CHOOSE c \in Chains :
              chains[c].st = "free" /\ \A d \in Chains : chains[d].st = "free" => c <= d

\* the AudioContext created by the next createAudioContext() for playback
NewContext == CHOOSE c \in PlaybackContexts :
                playbackCtx[c] = "none"
                  /\ \A d \in PlaybackContexts : playbackCtx[d] = "none" => c <= d

\* processAudioQueue(), called with a non-empty queue, up to
\* `await context.resume()`
processAudioQueue ==
  IF isPlayingAudioRef
  THEN UNCHANGED <<playbackAudioContextRef, playbackCtx, chains>>
  ELSE /\ \E c \in Chains : chains[c].st = "free"
       /\ IF playbackAudioContextRef # 0
          THEN UNCHANGED <<playbackAudioContextRef, playbackCtx>>
          ELSE /\ \E c \in PlaybackContexts : playbackCtx[c] = "none"
               /\ playbackAudioContextRef' = NewContext
               /\ playbackCtx' = [playbackCtx EXCEPT ![NewContext] = "open"]
       /\ chains' = [chains EXCEPT ![FreeSlot] =
                       [FreeChain EXCEPT !.st = "resume",
                                         !.ctx = playbackAudioContextRef']]

\* addAudioToQueue(audioData)
addAudioToQueue(buf) ==
  IF buf.len = 0
  THEN UNCHANGED <<audioQueueRef, playbackAudioContextRef, playbackCtx, chains>>
  ELSE /\ audioQueueRef' = Append(audioQueueRef, buf)
       /\ processAudioQueue

\* onmessage with an ArrayBuffer of len bytes: handleAgentAudioChunk(event.data)
OnAudioMessage(s, len) ==
  /\ rs[s] \in {"OPEN", "CLOSING"}
  /\ audioSeq < MaxAudio
  /\ audioSeq' = audioSeq + 1
  /\ addAudioToQueue([seq |-> audioSeq + 1, len |-> len])
  /\ UNCHANGED <<isPlayingAudioRef, nextAudioStartTimeRef, currentAudioSourceRef,
                 blobs, scheduled, currentTime, nonPlayback>>
  /\ completeResult' = "none"
  /\ droppedFrame' = FALSE
  /\ UNCHANGED resampleState
  /\ UNCHANGED dispatchState
  /\ UNCHANGED captured
  /\ UNCHANGED sessionResult

\* onmessage with a Blob: event.data.arrayBuffer() is started
OnBlobMessage(s, len) ==
  /\ rs[s] \in {"OPEN", "CLOSING"}
  /\ audioSeq < MaxAudio
  /\ audioSeq' = audioSeq + 1
  /\ blobs' = blobs \cup {[seq |-> audioSeq + 1, len |-> len]}
  /\ UNCHANGED <<playbackRefs, playbackCtx, chains, scheduled, currentTime, nonPlayback>>
  /\ completeResult' = "none"
  /\ droppedFrame' = FALSE
  /\ UNCHANGED resampleState
  /\ UNCHANGED dispatchState
  /\ UNCHANGED captured
  /\ UNCHANGED sessionResult

\* the arrayBuffer() promise of a Blob resolved: handleAgentAudioChunk(buffer)
BlobUnwrapped(buf) ==
  /\ buf \in blobs
  /\ blobs' = blobs \ {buf}
  /\ addAudioToQueue(buf)
  /\ UNCHANGED <<isPlayingAudioRef, nextAudioStartTimeRef, currentAudioSourceRef,
                 audioSeq, scheduled, currentTime, nonPlayback>>
  /\ completeResult' = "none"
  /\ droppedFrame' = FALSE
  /\ UNCHANGED resampleState
  /\ UNCHANGED dispatchState
  /\ UNCHANGED captured
  /\ UNCHANGED sessionResult

\* the audio field of an `audio` message
AudioBase64(p) ==
  Coalesce(Get(p, "audio_event.audio_base_64"),
  Coalesce(Get(p, "audio_event.audio_base64"),
  Coalesce(Get(p, "audio_event.audio"),
  Coalesce(Get(p, "audio"),
  Coalesce(Get(p, "agent_audio_chunk"),
  Coalesce(Get(p, "audio_chunk"), Get(p, "data")))))))

\* the audio field of an `agent_audio_chunk` / `audio_chunk` message
ChunkAudioBase64(p) ==
  Coalesce(Get(p, "agent_audio_chunk"),
  Coalesce(Get(p, "audio_chunk"), Get(p, "data")))

\* the audio field of a message of another type that carries audio
OtherAudioData(p) == Coalesce(Get(p, "audio_chunk"), Get(p, "agent_audio"))

\* the characters of the base64 alphabet
Base64Chars ==
  {"A", "B", "C", "D", "E", "F", "G", "H", "I", "J", "K", "L", "M", "N", "O", "P", "Q",
   "R", "S", "T", "U", "V", "W", "X", "Y", "Z", "a", "b", "c", "d", "e", "f", "g", "h",
   "i", "j", "k", "l", "m", "n", "o", "p", "q", "r", "s", "t", "u", "v", "w", "x", "y",
   "z", "0", "1", "2", "3", "4", "5", "6", "7", "8", "9", "+", "/"}

\* the ASCII whitespace atob removes before it decodes: space, tab, LF, FF, CR
AsciiWhitespace == {" ", "\t", "\n", "\f", "\r"}

\* s without its ASCII whitespace
RECURSIVE StripWhitespace(_)
StripWhitespace(s) ==
  IF Len(s) = 0
  THEN ""
  ELSE (IF SubSeq(s, 1, 1) \in AsciiWhitespace THEN "" ELSE SubSeq(s, 1, 1))
         \o StripWhitespace(SubSeq(s, 2, Len(s)))

\* atob(s).length, -1 when atob throws: ASCII whitespace is removed, one or two
\* `=` are dropped from the end of a string whose length is then a multiple of
\* 4, what is left must be base64 characters, not 4k + 1 of them, and every 4
\* of them give 3 bytes
AtobLength(s) ==
  LET data == StripWhitespace(s)
      n == Len(data)
      padding == IF n > 0 /\ n % 4 = 0
                 THEN IF SubSeq(data, n - 1, n) = "==" THEN 2
                      ELSE IF SubSeq(data, n, n) = "=" THEN 1 ELSE 0
                 ELSE 0
      m == n - padding
  IN IF m % 4 = 1 \/ \E i \in 1..m : SubSeq(data, i, i) \notin Base64Chars
     THEN -1
     ELSE (m * 6) \div 8

\* handleAgentAudioBase64(base64Audio): the byte lengths of the buffers that
\* addAudioToQueue pushes (none when atob throws or the buffer is empty)
handleAgentAudioBase64(base64Audio) ==
  IF AtobLength(base64Audio) > 0 THEN <<AtobLength(base64Audio)>> ELSE <<>>

\* `x && typeof x === "string"`
NonEmptyString(v) == v.k = "str" /\ v.s # ""

\* the buffers the handler enqueues for the parsed payload p
DispatchedAudio(p) ==
  LET branch == MessageBranch(p) IN
  IF branch = "agent_response"
  THEN IF NonEmptyString(AudioInResponse(p))
       THEN handleAgentAudioBase64(AudioInResponse(p).s) ELSE <<>>
  ELSE IF branch = "audio"
  THEN IF NonEmptyString(AudioBase64(p))
       THEN handleAgentAudioBase64(AudioBase64(p).s) ELSE <<>>
  ELSE IF branch = "audio_chunk"
  THEN IF NonEmptyString(ChunkAudioBase64(p))
       THEN handleAgentAudioBase64(ChunkAudioBase64(p).s) ELSE <<>>
  ELSE IF branch = "other_audio"
  THEN IF OtherAudioData(p).k = "str"
       THEN handleAgentAudioBase64(OtherAudioData(p).s) ELSE <<>>
  ELSE <<>>

\* the transcript entries the handler appends for the parsed payload p
DispatchedEntries(p) ==
  LET branch == MessageBranch(p) IN
  IF branch = "agent_response" /\ Truthy(AgentText(p))
  THEN appendMessage(<<>>, [speaker |-> "agent", text |-> AgentText(p)])
  ELSE IF branch = "user_transcript" /\ Truthy(UserText(p))
  THEN appendMessage(<<>>, [speaker |-> "user", text |-> UserText(p)])
  ELSE <<>>

\* the value setError receives for an error message: the string, or the number
StoredError(v) == IF v.k = "str" THEN v.s ELSE v.n

\* socket.onmessage for a text frame that parses to payload p (messages are
\* still delivered while the socket is CLOSING): the branch taken, the entry
\* appended, and the audio of the frame handed to addAudioToQueue
OnMessage(s, p) ==
  /\ rs[s] \in {"OPEN", "CLOSING"}
  /\ UNCHANGED <<sessionData, connectionStatus, analysis, isLoading, websocketRef,
                 mediaStreamRef, audioContextRef, processorNodeRef, gainNodeRef,
                 isPlayingAudioRef, nextAudioStartTimeRef, currentAudioSourceRef,
                 nextId, pc, rs, settled, closePending, closeCalls,
                 promiseCalls, captureState, completeState>>
  /\ LET branch == MessageBranch(p)
         text == IF branch = "agent_response" THEN AgentText(p) ELSE UserText(p)
         speaker == IF branch = "agent_response" THEN "agent" ELSE "user"
         audio == DispatchedAudio(p)
     IN
     /\ conversationInitializedRef' =
          IF branch = "metadata" THEN TRUE ELSE conversationInitializedRef
     /\ rcvdMeta' = IF Get(p, "type") = Str("conversation_initiation_metadata")
                    THEN [rcvdMeta EXCEPT ![s] = TRUE] ELSE rcvdMeta
     /\ IF branch = "ping" /\ rs[s] = "OPEN"
        THEN /\ Len(sent[s]) < MaxSent
             /\ sent' = [sent EXCEPT ![s] = Append(@, Pong(Get(p, "ping_event.event_id")))]
        ELSE UNCHANGED sent
     /\ IF branch \in {"agent_response", "user_transcript"} /\ Truthy(text)
        THEN /\ Len(messages) < MaxMessages
             /\ messages' = appendMessage(messages, [speaker |-> speaker, text |-> text])
        ELSE UNCHANGED messages
     /\ error' = IF branch = "error"
                 THEN StoredError(Coalesce(Get(p, "message"), Str(ErrDefaultInbound)))
                 ELSE error
     /\ IF audio = <<>>
        THEN UNCHANGED <<audioQueueRef, playbackAudioContextRef, playbackCtx, chains,
                         audioSeq>>
        ELSE /\ audioSeq < MaxAudio
             /\ audioSeq' = audioSeq + 1
             /\ addAudioToQueue([seq |-> audioSeq + 1, len |-> audio[1]])
  /\ completeResult' = "none"
  /\ droppedFrame' = (MessageBranch(p) = "unhandled")
  /\ UNCHANGED resampleState
  /\ UNCHANGED dispatchState
  /\ UNCHANGED captured
  /\ UNCHANGED sessionResult
  /\ UNCHANGED <<blobs, scheduled, currentTime, hasMediaDevices, locationProtocol,
                 stopCalled>>

\* playNext() leaving isPlayingAudioRef set when it finds the queue empty
playNextKeepingFlag(c, playing) ==
  IF audioQueueRef = <<>>
  THEN /\ isPlayingAudioRef' = playing
       /\ nextAudioStartTimeRef' = 0
       /\ chains' = [chains EXCEPT ![c] = FreeChain]
       /\ UNCHANGED audioQueueRef
  ELSE /\ isPlayingAudioRef' = playing
       /\ audioQueueRef' = Tail(audioQueueRef)
       /\ chains' = [chains EXCEPT ![c] =
                       [FreeChain EXCEPT !.st = "decode", !.ctx = chains[c].ctx,
                                         !.buf = Head(audioQueueRef)]]
       /\ UNCHANGED nextAudioStartTimeRef

\* playNext() of call c; `playing` is the value of isPlayingAudioRef on entry
playNext(c, playing) ==
  IF audioQueueRef = <<>>
  THEN /\ isPlayingAudioRef' = FALSE
       /\ nextAudioStartTimeRef' = 0
       /\ chains' = [chains EXCEPT ![c] = FreeChain]
       /\ UNCHANGED audioQueueRef
  ELSE /\ isPlayingAudioRef' = playing
       /\ audioQueueRef' = Tail(audioQueueRef)
       /\ chains' = [chains EXCEPT ![c] =
                       [FreeChain EXCEPT !.st = "decode", !.ctx = chains[c].ctx,
                                         !.buf = Head(audioQueueRef)]]
       /\ UNCHANGED nextAudioStartTimeRef

\* `await context.resume()` of call c settled.  resolves: the promise resolved,
\* isPlayingAudioRef is set and playNext() runs, whatever the state of the
\* context by then; otherwise it rejected and the call ends there, which only
\* a context closed meanwhile does (whether it resolves or rejects then is the
\* device's choice)
ResumeDone(c, resolves) ==
  /\ chains[c].st = "resume"
  /\ resolves \/ playbackCtx[chains[c].ctx] = "closed"
  /\ IF resolves
     THEN playNext(c, TRUE)
     ELSE /\ chains' = [chains EXCEPT ![c] = FreeChain]
          /\ UNCHANGED <<audioQueueRef, isPlayingAudioRef, nextAudioStartTimeRef>>
  /\ UNCHANGED <<playbackAudioContextRef, currentAudioSourceRef, playbackCtx, audioSeq,
                 blobs, scheduled, currentTime, nonPlayback>>
  /\ completeResult' = "none"
  /\ droppedFrame' = FALSE
  /\ UNCHANGED resampleState
  /\ UNCHANGED dispatchState
  /\ UNCHANGED captured
  /\ UNCHANGED sessionResult

\* decodeAndPlay of call c after `await context.decodeAudioData(...)`:
\* compressedOk says whether decodeAudioData resolved, with a buffer of dur
\* periods (whether it does for a context closed meanwhile is the device's
\* choice); otherwise the PCM fallback is tried.  The start time is read from
\* the clock of the context the call captured.
DecodeDone(c, compressedOk, dur) ==
  /\ chains[c].st = "decode"
  /\ LET buf == chains[c].buf
         duration == IF compressedOk THEN dur ELSE PcmDuration(buf.len)
         startTime == Max(currentTime[chains[c].ctx], nextAudioStartTimeRef)
         fin == startTime + AdjustedDuration(duration)
     IN
     IF ~compressedOk /\ ~IsPcm(buf.len)
     THEN /\ chains' = [chains EXCEPT ![c] = [FreeChain EXCEPT !.st = "timer",
                                                                !.ctx = chains[c].ctx]]
          /\ UNCHANGED <<currentAudioSourceRef, nextAudioStartTimeRef, scheduled>>
     ELSE /\ scheduled' = Append(scheduled, [seq |-> buf.seq, ctx |-> chains[c].ctx,
                                             start |-> startTime, fin |-> fin])
          /\ currentAudioSourceRef' = buf.seq
          /\ nextAudioStartTimeRef' = fin
          /\ chains' = [chains EXCEPT ![c] = [@ EXCEPT !.st = "playing", !.fin = fin]]
  /\ UNCHANGED <<playbackAudioContextRef, audioQueueRef, isPlayingAudioRef, playbackCtx,
                 audioSeq, blobs, currentTime, nonPlayback>>
  /\ completeResult' = "none"
  /\ droppedFrame' = FALSE
  /\ UNCHANGED resampleState
  /\ UNCHANGED dispatchState
  /\ UNCHANGED captured
  /\ UNCHANGED sessionResult

\* source.onended of call c's source: the buffer played to its end on the
\* clock of its context, or the source was stopped by stopRecording
SourceEnded(c) ==
  /\ chains[c].st = "playing"
  /\ \/ chains[c].stopped
     \/ /\ playbackCtx[chains[c].ctx] = "open"
        /\ currentTime[chains[c].ctx] >= chains[c].fin
  /\ currentAudioSourceRef' = 0
  /\ chains' = [chains EXCEPT ![c] = [FreeChain EXCEPT !.st = "timer",
                                                        !.ctx = chains[c].ctx]]
  /\ UNCHANGED <<playbackAudioContextRef, audioQueueRef, isPlayingAudioRef,
                 nextAudioStartTimeRef, playbackCtx, audioSeq, blobs, scheduled,
                 currentTime, nonPlayback>>
  /\ completeResult' = "none"
  /\ droppedFrame' = FALSE
  /\ UNCHANGED resampleState
  /\ UNCHANGED dispatchState
  /\ UNCHANGED captured
  /\ UNCHANGED sessionResult

\* the setTimeout(() => playNext(), 10) of call c fired
TimerFired(c) ==
  /\ chains[c].st = "timer"
  /\ playNext(c, isPlayingAudioRef)
  /\ UNCHANGED <<playbackAudioContextRef, currentAudioSourceRef, playbackCtx, audioSeq,
                 blobs, scheduled, currentTime, nonPlayback>>
  /\ completeResult' = "none"
  /\ droppedFrame' = FALSE
  /\ UNCHANGED resampleState
  /\ UNCHANGED dispatchState
  /\ UNCHANGED captured
  /\ UNCHANGED sessionResult

\* the clocks after TickStep more ticks: the clock of an open context advances,
\* that of a closed one stands still
Advanced ==
  [x \in PlaybackContexts |->
     IF playbackCtx[x] = "open" THEN currentTime[x] + TickStep ELSE currentTime[x]]

\* the playback device clock advances
Tick ==
  /\ \E x \in PlaybackContexts : playbackCtx[x] = "open"
  /\ \A x \in PlaybackContexts :
       playbackCtx[x] = "open" => currentTime[x] + TickStep <= MaxClock
  /\ currentTime' = Advanced
  /\ UNCHANGED <<playbackRefs, playbackCtx, chains, audioSeq, blobs, scheduled,
                 nonPlayback>>
  /\ completeResult' = "none"
  /\ droppedFrame' = FALSE
  /\ UNCHANGED resampleState
  /\ UNCHANGED dispatchState
  /\ UNCHANGED captured
  /\ UNCHANGED sessionResult

\* byte lengths of inbound audio payloads, durations (periods) of decoded buffers
AudioLengths == {2, 3}
BlobLengths == {2}
Durations == {1}

(***************************************************************************)
(* downsampleBuffer(buffer, inputSampleRate, outputSampleRate).  Samples   *)
(* are integers; an output sample is kept as the sum and the count of the  *)
(* input samples averaged, and the ratio of the rates is kept exact.       *)
(***************************************************************************)
MaxResampleLen == 12
TARGET_SAMPLE_RATE == 16000
\* the buffer size of createScriptProcessor
CaptureBufferSize == 4096

\* a / b rounded down instead of to the nearest integer
DivFloor(a, b) == a \div b

\* Math.round(a / b) for a >= 0, b > 0: halves round up
RoundDiv(a, b) == (2 * a + b) \div (2 * b)

Min(a, b) == IF a <= b THEN a ELSE b

RECURSIVE SumRange(_, _, _)
\* buffer[from] + ... + buffer[to - 1], indices counted from 0
SumRange(buffer, from, to) ==
  IF from >= to THEN 0 ELSE buffer[from + 1] + SumRange(buffer, from + 1, to)

downsampleBuffer(buffer, inputSampleRate, outputSampleRate) ==
  IF outputSampleRate = inputSampleRate THEN buffer
  ELSE LET newLength == RoundDiv(Len(buffer) * outputSampleRate, inputSampleRate)
           start(i) == (i * inputSampleRate) \div outputSampleRate
           end(i) == Min(((i + 1) * inputSampleRate) \div outputSampleRate, Len(buffer))
       IN [i \in 1..newLength |->
             [sum |-> SumRange(buffer, start(i - 1), end(i - 1)),
              count |-> Max(end(i - 1) - start(i - 1), 0)]]

\* the captured buffer of n samples the model resamples
CapturedBuffer(n) == [i \in 1..n |-> (i % 7) - 3]

SampleRates == {8000, 16000, 22050, 44100, 48000, 96000}
ResampleInputs ==
  [n : (0..MaxResampleLen) \cup {CaptureBufferSize}, inputSampleRate : SampleRates,
   outputSampleRate : {TARGET_SAMPLE_RATE}]

\* one call of downsampleBuffer, as made by onaudioprocess
DownsampleBuffer ==
  /\ resampleIn # NoResample
  /\ ~resampleOut.done
  /\ resampleOut' = [done |-> TRUE,
                     buffer |-> downsampleBuffer(CapturedBuffer(resampleIn.n),
                                                 resampleIn.inputSampleRate,
                                                 resampleIn.outputSampleRate)]
  /\ UNCHANGED <<hookState, refs, playbackRefs, nextId, pc, socketState, captureState,
                 completeState, playbackState, hasMediaDevices, locationProtocol,
                 stopCalled, completeResult, droppedFrame, sessionResult, resampleIn,
                 dispatchState, captured>>

(***************************************************************************)
(* The specifications.  Spec: starting, restarting and stopping up to      *)
(* MaxSessions sessions (the UI offers start / restart only while          *)
(* isLoading is false), with the payloads that matter across a restart.    *)
(* SpecSingle: one session and every kind of text payload.                 *)
(***************************************************************************)
Next ==
  \/ StartSession
  \/ \E s \in Sessions, urlOk \in BOOLEAN : CreateSessionResolved(s, urlOk, PlainResult)
  \/ \E s \in Sessions : CreateSessionRejected(s, EmptyBody)
  \/ \E s \in Sessions : OnOpen(s)
  \/ \E s \in Sessions : OnError(s)
  \/ \E s \in Sessions, ev \in CloseEvents : OnClose(s, ev)
  \/ \E s \in Sessions, p \in RestartPayloads :
       OnMessage(s, p) /\ Len(messages') <= MaxRestartMessages
  \/ \E s \in Sessions : MicGranted(s)
  \/ \E s \in Sessions, name \in MicFailures : MicDenied(s, name)
  \/ \E s \in Sessions : ResumeResolved(s)
  \/ \E s \in Sessions : ResumeRejected(s)
  \/ \E s \in Sessions : OnAudioProcess(s)
  \/ StopSession
  \/ UnmountCleanup

Spec == Init /\ [][Next]_vars

NextSingle ==
  \/ nextId = 1 /\ StartSession
  \/ \E urlOk \in BOOLEAN : CreateSessionResolved(1, urlOk, PlainResult)
  \/ \E body \in ErrorBodies : CreateSessionRejected(1, body)
  \/ OnOpen(1)
  \/ OnError(1)
  \/ \E ev \in CloseEvents : OnClose(1, ev)
  \/ \E p \in InboundPayloads : OnMessage(1, p)
  \/ OnInvalidText(1)
  \/ MicGranted(1)
  \/ \E name \in MicFailures : MicDenied(1, name)
  \/ ResumeResolved(1)
  \/ ResumeRejected(1)
  \/ OnAudioProcess(1)
  \/ StopSession
  \/ UnmountCleanup

SpecSingle == Init /\ [][NextSingle]_vars

\* SpecComplete: one session that is started, receives transcript text and is
\* stopped or fails, with completeSession() invoked at any moment, also while
\* an earlier call is still awaited
NextComplete ==
  \/ nextId = 1 /\ StartSession
  \/ \E urlOk \in BOOLEAN : CreateSessionResolved(1, urlOk, PlainResult)
  \/ \E body \in ErrorBodies : CreateSessionRejected(1, body)
  \/ OnOpen(1)
  \/ OnError(1)
  \/ \E ev \in CloseEvents : OnClose(1, ev)
  \/ \E p \in {AgentResponseMsg("hello"), UserTranscriptMsg("hi")} : OnMessage(1, p)
  \/ MicGranted(1)
  \/ \E name \in MicFailures : MicDenied(1, name)
  \/ ResumeResolved(1)
  \/ ResumeRejected(1)
  \/ StopSession
  \/ CompleteSession
  \/ \E i \in 1..MaxApiCalls : CompleteResolved(i)
  \/ \E i \in 1..MaxApiCalls, body \in ErrorBodies : CompleteRejected(i, body)

SpecComplete == Init /\ [][NextComplete]_vars

\* SpecResample: downsampleBuffer called on buffers of every length and rate
InitResample ==
  /\ InitSession
  /\ hasMediaDevices
  /\ locationProtocol = "https:"
  /\ resampleIn \in ResampleInputs
  /\ resampleOut = NotReturned
  /\ dispatchIn = NoDispatch /\ dispatchOut = NotDispatched

NextResample == DownsampleBuffer

SpecResample == InitResample /\ [][NextResample]_vars

\* SpecHandshake: one session, started with every shape of session result
NextHandshake ==
  \/ nextId = 1 /\ StartSession
  \/ \E urlOk \in BOOLEAN, result \in SessionResults :
       CreateSessionResolved(1, urlOk, result)
  \/ \E body \in HandshakeErrorBodies : CreateSessionRejected(1, body)
  \/ OnOpen(1)
  \/ OnError(1)
  \/ \E ev \in CloseEvents : OnClose(1, ev)
  \/ \E p \in {MetadataMsg, PingMsg(Num(7))} : OnMessage(1, p)
  \/ StopSession

SpecHandshake == Init /\ [][NextHandshake]_vars

\* SpecPlayback: one session whose socket delivers audio payloads
NextPlayback ==
  \/ nextId = 1 /\ StartSession
  \/ CreateSessionResolved(1, TRUE, PlainResult)
  \/ OnOpen(1)
  \/ \E len \in AudioLengths : OnAudioMessage(1, len)
  \/ \E len \in BlobLengths : OnBlobMessage(1, len)
  \/ \E buf \in blobs : BlobUnwrapped(buf)
  \/ \E c \in Chains, resolves \in BOOLEAN : ResumeDone(c, resolves)
  \/ \E c \in Chains, compressedOk \in BOOLEAN, dur \in Durations :
       DecodeDone(c, compressedOk, dur)
  \/ \E c \in Chains : SourceEnded(c)
  \/ \E c \in Chains : TimerFired(c)
  \/ Tick
  \/ StopSession

\* the page of SpecPlayback: microphone API present, served over https
InitPlayback == Init /\ hasMediaDevices /\ locationProtocol = "https:"

SpecPlayback == InitPlayback /\ [][NextPlayback]_vars

(***************************************************************************)
(* Properties.                                                             *)
(***************************************************************************)
HasAudioChunk(s) == \E i \in 1..Len(sent[s]) : sent[s][i].type = "user_audio_chunk"

\* C1: on every socket, no user_audio_chunk is sent before that same socket
\* has received conversation_initiation_metadata.
C1_NoAudioBeforeMetadata ==
  \A s \in Sessions : HasAudioChunk(s) => rcvdMeta[s]

\* C2: a ping with event id E received on an open socket makes the handler
\* send exactly one frame on that socket, the pong with event_id E.
C2_PingAnsweredByPong ==
  [][\A e \in EventIds :
       (OnMessage(1, PingMsg(e)) /\ rs[1] = "OPEN")
         => sent'[1] = Append(sent[1], Pong(e))]_vars

\* C3: completeSession() calls the completion collaborator (with the session
\* id and the assembled log) exactly when a session exists, the status is
\* neither connecting nor connected and the transcript is non-empty; otherwise
\* it throws, makes no call and leaves transcript, status and analysis as
\* they were.
C3_CompletePreconditions ==
  [][CompleteSession =>
       IF /\ sessionData # 0
          /\ connectionStatus \notin {"connecting", "connected"}
          /\ messages # <<>>
       THEN /\ completeResult' = "called"
            /\ apiCalls' = Append(apiCalls, [id |-> sessionData,
                                             log |-> ConversationLog(messages)])
       ELSE /\ completeResult' \notin {"called", "none"}
            /\ apiCalls' = apiCalls
            /\ completePc' = completePc
            /\ messages' = messages
            /\ connectionStatus' = connectionStatus
            /\ analysis' = analysis
            /\ isLoading' = isLoading
            /\ error' = error]_vars

\* C3 witness: a call reached the collaborator from a stopped session with a
\* transcript while an earlier call was still awaited.
C3_Witness ==
  /\ completeResult = "called"
  /\ Len(apiCalls) = 2
  /\ completePc = {1, 2}
  /\ apiCalls[2].log # <<>>
  /\ connectionStatus = "stopped"

\* a callback of session s's socket
SocketCallback(s) ==
  \/ OnOpen(s)
  \/ OnError(s)
  \/ \E ev \in CloseEvents : OnClose(s, ev)
  \/ \E p \in InboundPayloads : OnMessage(s, p)

\* C4: once stopSession() has been called on a session with a transcript,
\* completeSession() is accepted, and no callback of that session's socket
\* makes it rejected again.
C4_CompleteAfterStop ==
  [][\A s \in Sessions :
       (stopCalled /\ s = sessionData /\ CompleteCheck = "ok" /\ SocketCallback(s))
         => CompleteCheck' = "ok"]_vars

\* C5: no ended session (status stopped or error) leaves a microphone
\* stream captured.
C5_EndedSessionReleasesMic ==
  connectionStatus \in {"stopped", "error"} => \A s \in Sessions : mic[s] # "live"

\* C6: stopSession() leaves the current session's socket closing or closed,
\* whatever its readyState was.
C6_StopClosesSocket ==
  [][StopSession =>
       \A s \in Sessions : websocketRef = s => rs'[s] \in {"CLOSING", "CLOSED"}]_vars

\* all refs are null and the playback state is reset: what a teardown leaves
TornDown ==
  /\ websocketRef = 0 /\ mediaStreamRef = 0 /\ audioContextRef = 0
  /\ processorNodeRef = 0 /\ gainNodeRef = 0 /\ playbackAudioContextRef = 0
  /\ audioQueueRef = <<>> /\ ~isPlayingAudioRef
  /\ currentAudioSourceRef = 0 /\ nextAudioStartTimeRef = 0

\* C7: stopSession() is idempotent: every microphone stream's tracks are
\* stopped at most once and every socket gets at most one close(1000); a stop
\* leaves everything torn down with status stopped, and a stop in that state
\* changes nothing.
C7_StopIdempotent ==
  /\ [](\A s \in Sessions : trackStops[s] <= 1 /\ closeCalls[s] <= 1)
  /\ [][StopSession => (TornDown' /\ connectionStatus' = "stopped")]_vars
  /\ [][(StopSession /\ TornDown /\ connectionStatus = "stopped")
          => UNCHANGED <<hookState, refs, playbackRefs, nextId, pc, socketState,
                         captureState, completeState>>]_vars

\* C7 witness: a stop has released a live microphone and closed an open
\* socket; any further stop acts on this torn-down state.
C7_Witness ==
  /\ stopCalled /\ TornDown /\ connectionStatus = "stopped"
  /\ \E s \in Sessions : trackStops[s] = 1 /\ closeCalls[s] = 1 /\ mic[s] = "stopped"
                         /\ rs[s] = "CLOSING"

\* C8: when a startSession() call has failed, the socket it opened is closed
\* (or closing) and no microphone, capture context or processor of that
\* session is left allocated.
C8_FailedStartTornDown ==
  \A s \in Sessions :
    pc[s] = "failed" =>
      /\ rs[s] \notin {"CONNECTING", "OPEN"}
      /\ mic[s] # "live"
      /\ ctx[s] # "running"
      /\ proc[s] # "connected"

\* C9: a failed startSession() leaves status error with an error message, and
\* until the next startSession() no callback of the failed session's socket
\* moves the status away from error.
C9_FailedStartStaysError ==
  [][\A s \in Sessions :
       /\ (pc[s] # "failed" /\ pc'[s] = "failed")
            => (connectionStatus' = "error" /\ error' # "null")
       /\ (pc[s] = "failed" /\ nextId = s + 1 /\ connectionStatus = "error"
             /\ SocketCallback(s))
            => connectionStatus' = "error"]_vars

\* C10: in a session whose microphone acquisition fails, the status has not
\* been connected by the time the failure arrives.
C10_MicFailureNeverConnected ==
  [][\A s \in Sessions, name \in MicFailures :
       (MicDenied(s, name) /\ nextId = s + 1) => connectionStatus # "connected"]_vars



\* C11: when getUserMedia fails, the error left by the failed startSession()
\* is the message startStreamingAudio classified for that failure.
C11_MicFailureMessageClassified ==
  [][\A name \in MicFailures :
       MicDenied(1, name) => error' = MicErrorMessage(name, locationProtocol)]_vars

\* C12: handling a close with code 1002 (of a socket that had opened) leaves
\* connectionStatus "error" and the protocol-error message as the error.
C12_Close1002IsProtocolError ==
  [][\A ev \in CloseEvents :
       (ev.code = 1002 /\ rs[1] = "OPEN" /\ OnClose(1, ev))
         => (connectionStatus' = "error" /\ error' = ErrClose1002)]_vars

\* C13: handling a close with code 1006, or with any other code that is not
\* clean, leaves connectionStatus "error" with an error message set.
C13_TransportErrorsEndInError ==
  [][\A ev \in CloseEvents :
       (ev.code \notin {1000, 1002} /\ ~ev.wasClean /\ OnClose(1, ev))
         => (connectionStatus' = "error" /\ error' # "null")]_vars

\* C14: handling a close with code 1000 leaves connectionStatus "stopped" and
\* does not touch the error, whenever in the session the close arrives.
C14_NormalCloseNoError ==
  [][\A ev \in CloseEvents :
       (ev.code = 1000 /\ OnClose(1, ev))
         => (connectionStatus' = "stopped" /\ error' = error)]_vars

\* C15: the promise of connectWebsocket gets at most one resolve / reject call:
\* onopen resolves it, an error or close that finds it unsettled rejects it, and
\* nothing is called on it once it is settled.
C15_HandshakeSettledOnce ==
  /\ [](\A s \in Sessions : Len(promiseCalls[s]) <= 1)
  /\ [][\A s \in Sessions :
          /\ OnOpen(s) => promiseCalls'[s] = <<"resolve">>
          /\ ((OnError(s) \/ \E ev \in CloseEvents : OnClose(s, ev))
                /\ promiseCalls[s] = <<>>)
               => (promiseCalls'[s] = <<"reject">> /\ pc'[s] = "failed")
          /\ promiseCalls[s] # <<>> => promiseCalls'[s] = promiseCalls[s]]_vars

\* C15 witness: one socket had an error and its close after it opened, another
\* one was closed before it opened.
C15_Witness ==
  /\ promiseCalls[1] = <<"resolve">> /\ rs[1] = "CLOSED" /\ ~closePending[1]
  /\ promiseCalls[2] = <<"reject">> /\ rs[2] = "CLOSED"

\* C16: "connected" is entered only from "connecting", and no socket callback
\* or continuation of startSession() changes an "error" or "stopped" status: it
\* is left only by a new startSession(), for "connecting".
C16_StatusTransitions ==
  [][/\ (connectionStatus' = "connected" /\ connectionStatus # "connected")
          => connectionStatus = "connecting"
     /\ (connectionStatus \in {"error", "stopped"}
           /\ connectionStatus' # connectionStatus /\ ~StopSession)
          => (StartSession /\ connectionStatus' = "connecting")]_vars

\* C17: the sources are started in the order their payloads arrived: in the
\* log of source.start() calls the arrival numbers increase.
C17_PlayedInArrivalOrder ==
  \A i, j \in 1..Len(scheduled) : i < j => scheduled[i].seq < scheduled[j].seq

\* a processAudioQueue() call that holds a payload taken from the queue
HoldsPayload(c) == chains[c].st \in {"decode", "playing"}

\* C18: at most one payload taken from the queue is being decoded or played.
C18_OneDrainChain ==
  Cardinality({c \in Chains : HoldsPayload(c)}) <= 1

\* a drain run in progress: between taking its first payload and finding the
\* queue empty
Draining(c) == chains[c].st \in {"decode", "playing", "timer"}

\* C19: while a drain run is in progress (and stopSession() is not what runs),
\* nextAudioStartTimeRef does not decrease.
C19_StartTimeMonotonic ==
  [][((\E c \in Chains : Draining(c) /\ Draining(c)') /\ ~StopSession)
       => nextAudioStartTimeRef' >= nextAudioStartTimeRef]_vars

\* the payload with arrival number n is neither queued, nor being unwrapped,
\* nor held by a drain chain
Gone(n) ==
  /\ \A i \in 1..Len(audioQueueRef) : audioQueueRef[i].seq # n
  /\ \A b \in blobs : b.seq # n
  /\ \A c \in Chains : chains[c].buf.seq # n

\* C20: a payload of odd length that is not a compressed format is dropped:
\* nothing is scheduled for it, no error or status is set, the payloads queued
\* behind it stay queued, and the chain's next playNext() takes the first of them.
C20_BadFrameDropped ==
  [][\A c \in Chains :
       /\ ((\E dur \in Durations : DecodeDone(c, FALSE, dur)) /\ chains[c].buf.len % 2 = 1)
            => /\ scheduled' = scheduled
               /\ error' = error
               /\ connectionStatus' = connectionStatus
               /\ audioQueueRef' = audioQueueRef
               /\ chains'[c].st = "timer"
       /\ (TimerFired(c) /\ audioQueueRef # <<>>)
            => /\ chains'[c].st = "decode"
               /\ chains'[c].buf = Head(audioQueueRef)]_vars

\* C20 witness: the first payload was dropped by the decoder and the second
\* one was played after it.
C20_Witness ==
  /\ ~stopCalled
  /\ audioSeq >= 2
  /\ Gone(1)
  /\ \A i \in 1..Len(scheduled) : scheduled[i].seq # 1
  /\ \E i \in 1..Len(scheduled) : scheduled[i].seq = 2
  /\ error = "null"

\* C21: apart from startSession(), a step leaves the transcript as it is or
\* adds one entry at its end.
C21_TranscriptAppendOnly ==
  [][\/ StartSession
     \/ messages' = messages
     \/ /\ Len(messages') = Len(messages) + 1
        /\ SubSeq(messages', 1, Len(messages)) = messages]_vars

\* C21 witness: a user entry followed by an agent entry.
C21_Witness ==
  /\ Len(messages) = 2
  /\ messages[1].speaker = "user"
  /\ messages[2].speaker = "agent"

AgentTypes == {Str("agent_response"), Str("response")}
UserTypes == {Str("user_transcription"), Str("transcript"), Str("user_transcript")}
AgentAliases == {"agent_response_event.agent_response", "agent_response", "text", "response"}
UserAliases == {"user_transcription_event.user_transcript", "user_transcript",
                "transcript", "text"}

\* the text a payload carries in one of the given alias fields, Str("") if none
TextIn(p, aliases) ==
  IF \E f \in aliases \cap DOMAIN p : Truthy(p[f])
  THEN p[CHOOSE f \in aliases \cap DOMAIN p : Truthy(p[f])]
  ELSE Str("")

\* C22: an agent-response payload with non-empty text T appends the entry
\* (agent, T), a user-transcript payload with non-empty text T appends the entry
\* (user, T), and every other payload leaves the transcript unchanged.
C22_OneEntryPerTextMessage ==
  [][\A p \in InboundPayloads :
       OnMessage(1, p) =>
         IF Get(p, "type") \in AgentTypes /\ Truthy(TextIn(p, AgentAliases))
         THEN messages' = Append(messages, [speaker |-> "agent",
                                            text |-> TextIn(p, AgentAliases)])
         ELSE IF Get(p, "type") \in UserTypes /\ Truthy(TextIn(p, UserAliases))
         THEN messages' = Append(messages, [speaker |-> "user",
                                            text |-> TextIn(p, UserAliases)])
         ELSE messages' = messages]_vars

\* C25: an inbound error message sets the error to its text and changes nothing
\* else of the session.
C25_ErrorMessageOnlySetsError ==
  [][OnMessage(1, ErrorMsg) =>
       /\ error' = "agent failure"
       /\ UNCHANGED <<sessionData, connectionStatus, messages, analysis, isLoading,
                      refs, playbackRefs, nextId, pc, socketState, captureState,
                      playbackState>>]_vars

\* C25 witness: the error of an inbound error message on a connected session.
C25_Witness ==
  error = "agent failure" /\ rs[1] = "OPEN" /\ connectionStatus = "connected"

\* C26: a text frame that is not JSON, or whose kind is not recognized, is
\* dropped without any change to the session, and a later frame on the same
\* socket is handled as usual.
C26_UnrecognizedDropped ==
  /\ [][(OnInvalidText(1) \/ OnMessage(1, UnknownMsg))
          => /\ droppedFrame'
             /\ UNCHANGED <<hookState, refs, playbackRefs, nextId, pc, socketState,
                            captureState, playbackState>>]_vars
  /\ [][(droppedFrame /\ OnMessage(1, MetadataMsg)) => conversationInitializedRef']_vars

\* C26 witness: a frame was just dropped on the open socket of a connected session.
C26_Witness ==
  droppedFrame /\ rs[1] = "OPEN" /\ connectionStatus = "connected"

\* C23: on every socket that opened, the initiation message is the first frame
\* sent (before any pong or audio chunk) and no other frame sent on it is an
\* initiation message.
C23_InitiationFirstAndOnce ==
  \A s \in Sessions :
    /\ promiseCalls[s] = <<"resolve">> => sent[s] # <<>>
    /\ \A i \in 1..Len(sent[s]) :
         (sent[s][i].type = "conversation_initiation_client_data") <=> (i = 1)

\* C23 witness: a socket on which a pong followed the initiation message and
\* another on which an audio chunk did.
C23_Witness ==
  /\ Len(sent[1]) = 2
  /\ sent[1][1].type = "conversation_initiation_client_data"
  /\ sent[1][2].type = "pong"
  /\ Len(sent[2]) = 2
  /\ sent[2][1].type = "conversation_initiation_client_data"
  /\ sent[2][2].type = "user_audio_chunk"

\* C24: the initiation message sent on a socket carries the override map
\* exactly when the session result has one with entries, and likewise the
\* dynamic variables; the map carried is the one supplied.
C24_InitiationMapsIffNonEmpty ==
  \A s \in Sessions :
    sent[s] # <<>> =>
      LET m == sent[s][1]
          r == sessionResult[s]
      IN /\ ("conversation_config_override" \in DOMAIN m)
              <=> (r.override.present /\ r.override.keys # {})
         /\ ("dynamic_variables" \in DOMAIN m)
              <=> (r.dynamic.present /\ r.dynamic.keys # {})
         /\ "conversation_config_override" \in DOMAIN m
              => m["conversation_config_override"] = r.override
         /\ "dynamic_variables" \in DOMAIN m => m["dynamic_variables"] = r.dynamic

\* C24 witness: an initiation message sent for a session result with an
\* override that has entries and an empty map of dynamic variables.
C24_Witness ==
  /\ sent[1] # <<>>
  /\ sessionResult[1].override.keys # {}
  /\ sessionResult[1].dynamic = EmptyMap

\* C27: downsampleBuffer returns its input when the rates are equal, and
\* otherwise a buffer whose length r is n * t / s rounded to the nearest
\* integer (halves up): -s < 2 * (r * s - n * t) <= s; 4096 samples at 48000 Hz
\* give 1365 samples at 16000 Hz.
C27_ResampledLength ==
  resampleOut.done =>
    LET n == resampleIn.n
        s == resampleIn.inputSampleRate
        t == resampleIn.outputSampleRate
        r == Len(resampleOut.buffer)
    IN /\ s = t => resampleOut.buffer = CapturedBuffer(n)
       /\ s # t => (2 * (r * s - n * t) <= s /\ 2 * (r * s - n * t) > -s)
       /\ (n = 4096 /\ s = 48000 /\ t = 16000) => r = 1365

\* C27 witness: the 4096-sample buffer captured at 48000 Hz was resampled.
C27_Witness ==
  /\ resampleOut.done
  /\ resampleIn = [n |-> 4096, inputSampleRate |-> 48000, outputSampleRate |-> 16000]
  /\ Len(resampleOut.buffer) = 1365

\* C28: once stopSession() has run (and no startSession() since) and every
\* socket is closing, closed or was never opened, the playback queue is empty,
\* nextAudioStartTimeRef is 0 and no playback AudioContext is held.
C28_NoPlaybackAfterStop ==
  (stopCalled /\ \A s \in Sessions : rs[s] \notin {"CONNECTING", "OPEN"}) =>
    /\ audioQueueRef = <<>>
    /\ nextAudioStartTimeRef = 0
    /\ playbackAudioContextRef = 0

\* C29: once stopSession() has run (and no startSession() since), no microphone
\* stream, capture context or processor is installed and no stream is live.
C29_NoMicAfterStop ==
  stopCalled =>
    /\ mediaStreamRef = 0
    /\ audioContextRef = 0
    /\ processorNodeRef = 0
    /\ \A s \in Sessions : mic[s] # "live"

\* C30: a callback of a socket that is not the current one (websocketRef) changes
\* neither connectionStatus, nor the initialized flag, nor the transcript, nor
\* the playback queue.
C30_StaleSocketCallbacksNoOps ==
  [][\A s \in Sessions :
       (SocketCallback(s) /\ websocketRef # s)
         => UNCHANGED <<connectionStatus, conversationInitializedRef, messages,
                        audioQueueRef>>]_vars

\* playNext() of call c finds the queue empty and resets nextAudioStartTimeRef
ResetsStartTime(c) ==
  /\ audioQueueRef = <<>>
  /\ \/ TimerFired(c)
     \/ ResumeDone(c, TRUE)

\* C31: when playNext() resets nextAudioStartTimeRef to 0, no buffer that was
\* scheduled is still waiting to finish.
C31_ResetOnlyWhenDrained ==
  [][\A c \in Chains :
       ResetsStartTime(c)
         => /\ nextAudioStartTimeRef' = 0
            /\ \A d \in Chains : chains[d].st # "playing"]_vars

\* C32: the intervals of the buffers scheduled on one playback context while no
\* stopSession() has run do not overlap: each source starts at or after the
\* scheduled end of every source started before it.
C32_ScheduleNeverOverlaps ==
  ~stopCalled =>
    \A i, j \in 1..Len(scheduled) :
      (i < j /\ scheduled[i].ctx = scheduled[j].ctx)
        => scheduled[j].start >= scheduled[i].fin

(***************************************************************************)
(* Draining of the playback queue when nothing tears the session down: one *)
(* session that connects and receives audio, with the device's callbacks   *)
(* (resume, decode, ended, timer, Blob unwrapping) delivered fairly and    *)
(* the device clock running for as long as a source is playing.            *)
(***************************************************************************)
\* context.currentTime advances; it keeps advancing while a started source has
\* not reached its end
ClockRuns ==
  /\ \E x \in PlaybackContexts :
       /\ playbackCtx[x] = "open"
       /\ \/ currentTime[x] + TickStep <= MaxClock
          \/ \E c \in Chains : /\ chains[c].st = "playing" /\ chains[c].ctx = x
                               /\ currentTime[x] < chains[c].fin
  /\ currentTime' = Advanced
  /\ UNCHANGED <<playbackRefs, playbackCtx, chains, audioSeq, blobs, scheduled,
                 nonPlayback>>
  /\ completeResult' = "none"
  /\ droppedFrame' = FALSE
  /\ UNCHANGED resampleState
  /\ UNCHANGED dispatchState
  /\ UNCHANGED captured
  /\ UNCHANGED sessionResult

NextDrain ==
  \/ nextId = 1 /\ StartSession
  \/ CreateSessionResolved(1, TRUE, PlainResult)
  \/ OnOpen(1)
  \/ \E len \in AudioLengths : OnAudioMessage(1, len)
  \/ \E len \in BlobLengths : OnBlobMessage(1, len)
  \/ \E buf \in blobs : BlobUnwrapped(buf)
  \/ \E c \in Chains, resolves \in BOOLEAN : ResumeDone(c, resolves)
  \/ \E c \in Chains, compressedOk \in BOOLEAN, dur \in Durations :
       DecodeDone(c, compressedOk, dur)
  \/ \E c \in Chains : SourceEnded(c)
  \/ \E c \in Chains : TimerFired(c)
  \/ ClockRuns

\* the callbacks the browser owes the page are eventually delivered
FairDrain ==
  /\ WF_vars(\E buf \in blobs : BlobUnwrapped(buf))
  /\ \A c \in Chains :
       /\ WF_vars(\E resolves \in BOOLEAN : ResumeDone(c, resolves))
       /\ WF_vars(\E compressedOk \in BOOLEAN, dur \in Durations :
                    DecodeDone(c, compressedOk, dur))
       /\ WF_vars(SourceEnded(c))
       /\ WF_vars(TimerFired(c))
  /\ WF_vars(ClockRuns)

SpecDrain == InitPlayback /\ [][NextDrain]_vars /\ FairDrain

\* the payload with arrival number n waits in the queue
Queued(n) == \E i \in 1..Len(audioQueueRef) : audioQueueRef[i].seq = n

\* C33: a queue that is not empty always has a processAudioQueue() call in
\* progress, and every queued payload is eventually taken from the queue.
C33_QueueEventuallyDrained ==
  /\ [](audioQueueRef # <<>> => \E c \in Chains : chains[c].st # "free")
  /\ \A n \in 1..MaxAudio : Queued(n) ~> ~Queued(n)

\* C33 witness: all the payloads that arrived left the queue, one of them was
\* started and another was dropped by the decoder, and nothing is in progress.
C33_Witness ==
  /\ audioSeq = MaxAudio
  /\ audioQueueRef = <<>>
  /\ blobs = {}
  /\ \A c \in Chains : chains[c].st = "free"
  /\ Len(scheduled) \in 1..(MaxAudio - 1)
  /\ ~isPlayingAudioRef

(***************************************************************************)
(* The dispatch of one parsed text frame by socket.onmessage, taken alone: *)
(* which transcript entries it appends and which audio payloads it hands   *)
(* to addAudioToQueue.  The payloads carry several of the known fields at  *)
(* once, each absent, empty, a number or populated.                        *)
(***************************************************************************)
\* a field holding v, or no field when v is undefined
OptField(f, v) == IF v = Undef THEN <<>> ELSE Field(f, v)

\* text messages with a nested event field and a top-level alias
AliasPayloads ==
  {Field("type", Str("agent_response"))
     @@ OptField("agent_response_event.agent_response", a) @@ OptField("text", b) :
       a \in {Undef, Str(""), Str("hello")}, b \in {Undef, Str(""), Str("hey")}}
  \cup
  {Field("type", Str("user_transcript"))
     @@ OptField("user_transcription_event.user_transcript", a)
     @@ OptField("transcript", b) :
       a \in {Undef, Str(""), Str("hi")}, b \in {Undef, Str(""), Str("yo")}}

\* audio-bearing messages of every branch, one whose field is not base64, and
\* base64 with whitespace in it
AudioPayloads ==
  {Field("type", Str("audio"))
     @@ OptField("audio_event.audio_base_64", a) @@ OptField("audio", b)
     @@ OptField("data", c) :
       a \in {Undef, Str(""), Num(5), Str("QUJD")},
       b \in {Undef, Str(""), Num(5), Str("QUI=")},
       c \in {Undef, Str(""), Num(5), Str("QQ==")}}
  \cup
  {Field("type", Str("agent_response"))
     @@ Field("agent_response_event.agent_response", Str("hello"))
     @@ OptField("agent_response_event.audio", a) @@ OptField("audio_chunk", b) :
       a \in {Undef, Str(""), Str("QUJD")}, b \in {Undef, Str("QUI=")}}
  \cup
  {Field("type", Str("audio_chunk"))
     @@ OptField("agent_audio_chunk", a) @@ OptField("data", b) :
       a \in {Undef, Str(""), Str("QUJD")}, b \in {Undef, Str("QUI=")}}
  \cup
  {Field("type", Str("interruption"))
     @@ OptField("audio_chunk", a) @@ OptField("agent_audio", b) :
       a \in {Undef, Str(""), Str("QUJD")}, b \in {Undef, Str("QUI=")}}
  \cup
  {Field("type", Str("audio")) @@ Field("audio", Str("!"))}
  \cup
  {Field("type", Str("audio")) @@ Field("audio_event.audio_base_64", Str(a)) :
     a \in {"QU JD", "QUJD\n", " QUI=", " "}}

DispatchInputs == {[called |-> TRUE, payload |-> p] : p \in AliasPayloads \cup AudioPayloads}

\* one text frame taken through the if / else-if chain of onmessage
DispatchPayload ==
  /\ dispatchIn.called
  /\ ~dispatchOut.done
  /\ dispatchOut' = [done |-> TRUE,
                     entries |-> DispatchedEntries(dispatchIn.payload),
                     audio |-> DispatchedAudio(dispatchIn.payload)]
  /\ UNCHANGED <<hookState, refs, playbackRefs, nextId, pc, socketState, captureState,
                 completeState, playbackState, hasMediaDevices, locationProtocol,
                 stopCalled, completeResult, droppedFrame, sessionResult, resampleState,
                 dispatchIn, captured>>

InitDispatch ==
  /\ InitSession
  /\ hasMediaDevices
  /\ locationProtocol = "https:"
  /\ resampleIn = NoResample /\ resampleOut = NotReturned
  /\ dispatchIn \in DispatchInputs
  /\ dispatchOut = NotDispatched

NextDispatch == DispatchPayload

SpecDispatch == InitDispatch /\ [][NextDispatch]_vars

AgentAliasOrder == <<"agent_response_event.agent_response", "agent_response", "text",
                     "response">>
UserAliasOrder == <<"user_transcription_event.user_transcript", "user_transcript",
                    "transcript", "text">>

\* the first populated (non-empty string) field of p in the given order,
\* Str("") if there is none
FirstPopulated(p, order) ==
  LET populated == {i \in 1..Len(order) : NonEmptyString(Get(p, order[i]))} IN
  IF populated = {} THEN Str("")
  ELSE Get(p, order[CHOOSE i \in populated : \A j \in populated : i <= j])

\* C34: the entry appended for an agent-response or user-transcript payload
\* carries the first populated alias in the fixed order, and a payload with no
\* populated alias appends nothing.
C34_FirstPopulatedAliasWins ==
  (dispatchOut.done /\ dispatchIn.payload \in AliasPayloads) =>
    LET p == dispatchIn.payload
        agent == Get(p, "type") \in AgentTypes
        text == FirstPopulated(p, IF agent THEN AgentAliasOrder ELSE UserAliasOrder)
    IN IF text # Str("")
       THEN dispatchOut.entries = <<[speaker |-> IF agent THEN "agent" ELSE "user",
                                     text |-> text]>>
       ELSE dispatchOut.entries = <<>>

AudioOrder(p) ==
  LET branch == MessageBranch(p) IN
  IF branch = "agent_response"
  THEN <<"agent_response_event.audio", "agent_response_event.audio_chunk", "audio",
         "audio_chunk">>
  ELSE IF branch = "audio"
  THEN <<"audio_event.audio_base_64", "audio_event.audio_base64", "audio_event.audio",
         "audio", "agent_audio_chunk", "audio_chunk", "data">>
  ELSE IF branch = "audio_chunk"
  THEN <<"agent_audio_chunk", "audio_chunk", "data">>
  ELSE <<"audio_chunk", "agent_audio">>

\* C35: for an audio-bearing payload whose first non-empty string field, in the
\* priority order of its branch, is valid base64, exactly that string is decoded
\* and enqueued; a payload with no non-empty string field enqueues nothing.
C35_FirstNonEmptyAudioFieldWins ==
  (dispatchOut.done /\ dispatchIn.payload \in AudioPayloads) =>
    LET p == dispatchIn.payload
        audio == FirstPopulated(p, AudioOrder(p))
    IN IF audio = Str("")
       THEN dispatchOut.audio = <<>>
       ELSE AtobLength(audio.s) > 0 => dispatchOut.audio = <<AtobLength(audio.s)>>

\* the initiation message was the first frame transmitted on socket s
InitiationSent(s) ==
  sent[s] # <<>> /\ sent[s][1].type = "conversation_initiation_client_data"

\* C36: while the status is connected some socket has opened and sent the
\* initiation message, the current socket if there is one; and a handshake
\* promise is resolved only on a socket that sent it.
C36_ConnectedImpliesInitiationSent ==
  /\ connectionStatus = "connected" =>
       /\ \E s \in Sessions : InitiationSent(s)
       /\ websocketRef # 0 => InitiationSent(websocketRef)
  /\ \A s \in Sessions :
       (\E i \in 1..Len(promiseCalls[s]) : promiseCalls[s][i] = "resolve")
         => InitiationSent(s)

\* C36 witness: the second session is connected, its handshake resolved.
C36_Witness ==
  /\ connectionStatus = "connected"
  /\ websocketRef = 2
  /\ promiseCalls[2] = <<"resolve">>
  /\ InitiationSent(2)

(***************************************************************************)
(* Microphone capture with the buffers numbered: sessions that connect,    *)
(* are initialized, capture, lose their socket or are stopped, and may be  *)
(* started again.                                                          *)
(***************************************************************************)
MaxCaptures == 3
MaxCaptureSent == 4

\* the chunk made from the n-th buffer captured
CapturedChunk(n) == [type |-> "user_audio_chunk", event_id |-> Undef, buffer |-> n]

\* processor.onaudioprocess of session s's processor, for the next buffer
OnCapturedBuffer(s) ==
  /\ proc[s] = "connected"
  /\ ctx[s] = "running"
  /\ captured < MaxCaptures
  /\ captured' = captured + 1
  /\ sendAudioChunk(CapturedChunk(captured + 1), MaxCaptureSent)
  /\ UNCHANGED <<hookState, refs, playbackRefs, nextId, pc, rs, settled, closePending,
                 rcvdMeta, closeCalls, promiseCalls, captureState, completeState>>
  /\ completeResult' = "none"
  /\ droppedFrame' = FALSE
  /\ UNCHANGED resampleState
  /\ UNCHANGED dispatchState
  /\ UNCHANGED sessionResult
  /\ UNCHANGED <<playbackState, hasMediaDevices, locationProtocol, stopCalled>>

NextCapture ==
  \/ StartSession
  \/ \E s \in Sessions : CreateSessionResolved(s, TRUE, PlainResult)
  \/ \E s \in Sessions : OnOpen(s)
  \/ \E s \in Sessions : OnMessage(s, MetadataMsg)
  \/ \E s \in Sessions, ev \in CloseEvents : OnClose(s, ev)
  \/ \E s \in Sessions : MicGranted(s)
  \/ \E s \in Sessions : ResumeResolved(s)
  \/ \E s \in Sessions : OnCapturedBuffer(s)
  \/ StopSession

SpecCapture == InitPlayback /\ [][NextCapture]_vars

IsAudioChunk(m) == m.type = "user_audio_chunk"

\* C37: the chunks on every socket carry increasing buffer numbers; a buffer
\* captured while the current socket is not open or the conversation is not
\* initialized changes nothing; otherwise exactly its chunk is appended to the
\* current socket's frames; and a chunk is only ever sent in the callback of
\* its own buffer.
C37_CaptureOrderNoRetry ==
  /\ [](\A s \in Sessions : \A i, j \in 1..Len(sent[s]) :
          (i < j /\ IsAudioChunk(sent[s][i]) /\ IsAudioChunk(sent[s][j]))
            => sent[s][i].buffer < sent[s][j].buffer)
  /\ [][\A s \in Sessions :
          /\ (OnCapturedBuffer(s) /\ ~(CurrentSocketOpen /\ conversationInitializedRef))
               => UNCHANGED <<hookState, refs, playbackRefs, nextId, pc, socketState,
                              captureState, completeState, playbackState>>
          /\ (OnCapturedBuffer(s) /\ CurrentSocketOpen /\ conversationInitializedRef)
               => sent' = [sent EXCEPT ![websocketRef] =
                             Append(@, CapturedChunk(captured + 1))]
          /\ \A i \in 1..Len(sent'[s]) :
               (i > Len(sent[s]) /\ IsAudioChunk(sent'[s][i]))
                 => /\ captured' = captured + 1
                    /\ sent'[s][i].buffer = captured']_vars

\* C37 witness: the first buffer was dropped, the second and the third were sent.
C37_Witness ==
  /\ captured = 3
  /\ Len(sent[1]) = 3
  /\ sent[1][2] = CapturedChunk(2)
  /\ sent[1][3] = CapturedChunk(3)

(***************************************************************************)
(* A restart while the previous session plays audio: sessions that         *)
(* connect, capture and receive audio, started again from the form without *)
(* being stopped.                                                          *)
(***************************************************************************)
\* an agent response that carries its text and, in the same frame, 2 bytes of audio
AgentResponseWithAudio ==
  AgentResponseMsg("hello") @@ Field("agent_response_event.audio", Str("QUI="))

NextRestart ==
  \/ StartSession
  \/ \E s \in Sessions : CreateSessionResolved(s, TRUE, PlainResult)
  \/ \E s \in Sessions : OnOpen(s)
  \/ \E s \in Sessions : MicGranted(s)
  \/ \E s \in Sessions : ResumeResolved(s)
  \/ \E s \in Sessions : OnAudioMessage(s, 2)
  \/ \E s \in Sessions : OnMessage(s, AgentResponseWithAudio)
  \/ \E c \in Chains, resolves \in BOOLEAN : ResumeDone(c, resolves)
  \/ \E c \in Chains, dur \in Durations : DecodeDone(c, TRUE, dur)
  \/ \E c \in Chains : SourceEnded(c)
  \/ \E c \in Chains : TimerFired(c)
  \/ Tick

SpecRestart == InitPlayback /\ [][NextRestart]_vars

\* C38: startSession() leaves the transcript empty, the initialized flag false,
\* the playback queue empty with nothing playing and nextAudioStartTimeRef 0,
\* and the error and the analysis cleared.
C38_StartResetsSessionState ==
  [][StartSession =>
       /\ messages' = <<>>
       /\ conversationInitializedRef' = FALSE
       /\ error' = "null"
       /\ analysis' = 0
       /\ audioQueueRef' = <<>>
       /\ isPlayingAudioRef' = FALSE
       /\ currentAudioSourceRef' = 0
       /\ nextAudioStartTimeRef' = 0]_vars

\* C39: at most one socket is connecting or open, at most one microphone
\* stream is live and at most one processor delivers capture callbacks.
C39_OneSocketOneMicrophone ==
  /\ Cardinality({s \in Sessions : rs[s] \in {"CONNECTING", "OPEN"}}) <= 1
  /\ Cardinality({s \in Sessions : mic[s] = "live"}) <= 1
  /\ Cardinality({s \in Sessions : proc[s] = "connected"}) <= 1

====
